---- MODULE Spec2Model ----
(***************************************************************************)
(* A model of vm-superio's UART 16550A emulation (src/src/serial.rs).     *)
(* The Serial struct is the record `serial`; write, read and               *)
(* enqueue_raw_bytes are operators from a Serial value (and the outcome of *)
(* the Trigger and Write capabilities) to the new Serial value and the     *)
(* call's observable effects; the actions apply them.                      *)
(***************************************************************************)
EXTENDS Integers, Sequences, FiniteSets, TLC

VARIABLES
    serial,      \* the Serial struct (registers and in_buffer)
    signalled,   \* per cause: Trigger invocations since the cause was last acknowledged
    burst,       \* loopback data writes made with RDA enabled since the last RDA acknowledgment
    ier_written, \* the last byte written to the Interrupt Enable register (0 if none)
    sent,        \* SpecLoop: the bytes written to the data register, in order
    got,         \* SpecLoop: the bytes the data-register reads returned, in order
    out,         \* SpecSink: what the Output Sink received, in order
    tx,          \* SpecSink: the data-register writes that took the sink path, in order
    reset_evt,   \* I8042Device: the value of the reset EventFd
    i8042_last,  \* I8042Device: the last access and what it did
    rtc,         \* the RTC struct (counter, lr, mr, imsc, ris)
    now,         \* the monotonic clock Instant::now() reads, in ticks
    loaded_at,   \* RTC: the clock at the last load-register write or reset
    rtc_data,    \* RTC: the driver's 4-byte buffer as the last read left it
    rtc_offset   \* RTC: the offset of the last read, -1 before the first

\* The serial console and what its callers observed.
uart == <<serial, signalled, burst, ier_written, sent, got, out, tx>>

i8042_vars == <<reset_evt, i8042_last>>

rtc_vars == <<rtc, now, loaded_at, rtc_data, rtc_offset>>

vars == <<uart, i8042_vars, rtc_vars>>

(***************************************************************************)
(* u8 arithmetic.                                                          *)
(***************************************************************************)
Byte == 0..255

Bit(x, i) == (x \div (2 ^ i)) % 2

\* a & b on u8, bit by bit
AndBits(a, b) ==
    Bit(a, 0) * Bit(b, 0)
    + 2 * (Bit(a, 1) * Bit(b, 1))
    + 4 * (Bit(a, 2) * Bit(b, 2))
    + 8 * (Bit(a, 3) * Bit(b, 3))
    + 16 * (Bit(a, 4) * Bit(b, 4))
    + 32 * (Bit(a, 5) * Bit(b, 5))
    + 64 * (Bit(a, 6) * Bit(b, 6))
    + 128 * (Bit(a, 7) * Bit(b, 7))

\* The same as a table, computed once.
AndTable == [a \in Byte |-> [b \in Byte |-> AndBits(a, b)]]

BitAnd(a, b) == AndTable[a][b]

\* a | b on u8
BitOr(a, b) == a + b - BitAnd(a, b)

\* !a on u8
BitNot(a) == 255 - a

(***************************************************************************)
(* Register offsets and bit masks (serial.rs, lines 19-100).               *)
(***************************************************************************)
DATA_OFFSET == 0
IER_OFFSET == 1
IIR_OFFSET == 2
LCR_OFFSET == 3
MCR_OFFSET == 4
LSR_OFFSET == 5
MSR_OFFSET == 6
SCR_OFFSET == 7
DLAB_LOW_OFFSET == 0
DLAB_HIGH_OFFSET == 1

FIFO_SIZE == 64

IER_RDA_BIT == 1
IER_THR_EMPTY_BIT == 2
IER_UART_VALID_BITS == 15

IIR_FIFO_BITS == 192
IIR_NONE_BIT == 1
IIR_THR_EMPTY_BIT == 2
IIR_RDA_BIT == 4

LCR_DLAB_BIT == 128

LSR_DATA_READY_BIT == 1
LSR_EMPTY_THR_BIT == 32
LSR_IDLE_BIT == 64

MCR_DTR_BIT == 1
MCR_RTS_BIT == 2
MCR_OUT1_BIT == 4
MCR_OUT2_BIT == 8
MCR_LOOP_BIT == 16

MSR_CTS_BIT == 16
MSR_DSR_BIT == 32
MSR_RI_BIT == 64
MSR_DCD_BIT == 128

DEFAULT_BAUD_DIVISOR_HIGH == 0
DEFAULT_BAUD_DIVISOR_LOW == 12
DEFAULT_INTERRUPT_ENABLE == 0
DEFAULT_INTERRUPT_IDENTIFICATION == IIR_NONE_BIT
DEFAULT_LINE_STATUS == BitOr(LSR_EMPTY_THR_BIT, LSR_IDLE_BIT)
DEFAULT_LINE_CONTROL == 3
DEFAULT_MODEM_CONTROL == MCR_OUT2_BIT
DEFAULT_MODEM_STATUS == BitOr(BitOr(MSR_DSR_BIT, MSR_CTS_BIT), MSR_DCD_BIT)
DEFAULT_SCRATCH == 0

(***************************************************************************)
(* Serial::new                                                             *)
(***************************************************************************)
\* Serial::new with modem_status left at 0.
new_no_modem_status ==
    [ baud_divisor_low |-> DEFAULT_BAUD_DIVISOR_LOW,
      baud_divisor_high |-> DEFAULT_BAUD_DIVISOR_HIGH,
      interrupt_enable |-> DEFAULT_INTERRUPT_ENABLE,
      interrupt_identification |-> DEFAULT_INTERRUPT_IDENTIFICATION,
      line_control |-> DEFAULT_LINE_CONTROL,
      line_status |-> DEFAULT_LINE_STATUS,
      modem_control |-> DEFAULT_MODEM_CONTROL,
      modem_status |-> 0,
      scratch |-> DEFAULT_SCRATCH,
      in_buffer |-> <<>> ]

new ==
    [ baud_divisor_low |-> DEFAULT_BAUD_DIVISOR_LOW,
      baud_divisor_high |-> DEFAULT_BAUD_DIVISOR_HIGH,
      interrupt_enable |-> DEFAULT_INTERRUPT_ENABLE,
      interrupt_identification |-> DEFAULT_INTERRUPT_IDENTIFICATION,
      line_control |-> DEFAULT_LINE_CONTROL,
      line_status |-> DEFAULT_LINE_STATUS,
      modem_control |-> DEFAULT_MODEM_CONTROL,
      modem_status |-> DEFAULT_MODEM_STATUS,
      scratch |-> DEFAULT_SCRATCH,
      in_buffer |-> <<>> ]

(***************************************************************************)
(* Private helpers of Serial.                                              *)
(***************************************************************************)
is_dlab_set(s) == BitAnd(s.line_control, LCR_DLAB_BIT) # 0

is_rda_interrupt_enabled(s) == BitAnd(s.interrupt_enable, IER_RDA_BIT) # 0

is_thr_interrupt_enabled(s) == BitAnd(s.interrupt_enable, IER_THR_EMPTY_BIT) # 0

is_in_loop_mode(s) == BitAnd(s.modem_control, MCR_LOOP_BIT) # 0

\* set_lsr_rda_bit that sets nothing.
set_lsr_rda_bit_none(s) == s

set_lsr_rda_bit(s) ==
    [s EXCEPT !.line_status = BitOr(@, LSR_DATA_READY_BIT)]

\* clear_lsr_rda_bit that keeps the data-ready bit and clears the others.
clear_lsr_rda_bit_inverted(s) ==
    [s EXCEPT !.line_status = BitAnd(@, LSR_DATA_READY_BIT)]

clear_lsr_rda_bit(s) ==
    [s EXCEPT !.line_status = BitAnd(@, BitNot(LSR_DATA_READY_BIT))]

\* add_interrupt that leaves the "no interrupt" bit set.
add_interrupt_keep_none(s, interrupt_bits) ==
    [s EXCEPT !.interrupt_identification = BitOr(@, interrupt_bits)]

add_interrupt(s, interrupt_bits) ==
    [s EXCEPT !.interrupt_identification =
                  BitOr(BitAnd(@, BitNot(IIR_NONE_BIT)), interrupt_bits)]

\* del_interrupt that drops every cause.
del_interrupt_all(s, interrupt_bits) ==
    [s EXCEPT !.interrupt_identification = IIR_NONE_BIT]

\* del_interrupt without the restore of the "no interrupt" bit.
del_interrupt_no_sentinel(s, interrupt_bits) ==
    [s EXCEPT !.interrupt_identification = BitAnd(@, BitNot(interrupt_bits))]

del_interrupt(s, interrupt_bits) ==
    LET iir == BitAnd(s.interrupt_identification, BitNot(interrupt_bits))
    IN  [s EXCEPT !.interrupt_identification =
                      IF iir = 0 THEN IIR_NONE_BIT ELSE iir]

\* reset_iir that clears every bit of the register.
reset_iir_zero(s) == [s EXCEPT !.interrupt_identification = 0]

\* reset_iir that leaves the register as it is.
reset_iir_keep(s) == s

\* reset_iir that acknowledges the received-data cause only.
reset_iir_rda_only(s) == del_interrupt(s, IIR_RDA_BIT)

reset_iir(s) ==
    [s EXCEPT !.interrupt_identification = DEFAULT_INTERRUPT_IDENTIFICATION]

(***************************************************************************)
(* The capabilities.  Trigger::trigger returns Ok or its error; the        *)
(* io::Write sink fails on write_all, fails on flush, or accepts the byte. *)
(***************************************************************************)
TriggerOutcomes == {"ok", "err"}
SinkOutcomes == {"ok", "write_err", "flush_err"}

\* What a call that did nothing but (possibly) change the struct reports.
Plain(s) ==
    [serial |-> s, result |-> "Ok", triggered |-> 0, cause |-> "none",
     sunk |-> <<>>, flushed |-> FALSE]

\* thr_empty_interrupt that takes the cause back when the Trigger fails.
thr_empty_interrupt_rollback(s, trig) ==
    IF is_thr_interrupt_enabled(s)
       /\ BitAnd(s.interrupt_identification, IIR_THR_EMPTY_BIT) = 0
    THEN IF trig = "ok"
         THEN [Plain(add_interrupt(s, IIR_THR_EMPTY_BIT)) EXCEPT
                   !.triggered = 1, !.cause = "thr"]
         ELSE [Plain(s) EXCEPT
                   !.triggered = 1, !.cause = "thr", !.result = "Trigger"]
    ELSE Plain(s)

\* thr_empty_interrupt that does not look at interrupt_enable.
thr_empty_interrupt_always(s, trig) ==
    IF BitAnd(s.interrupt_identification, IIR_THR_EMPTY_BIT) = 0
    THEN [Plain(add_interrupt(s, IIR_THR_EMPTY_BIT)) EXCEPT
              !.triggered = 1, !.cause = "thr",
              !.result = IF trig = "ok" THEN "Ok" ELSE "Trigger"]
    ELSE Plain(s)

\* thr_empty_interrupt that drops the Trigger's error.
thr_empty_interrupt_swallow(s, trig) ==
    IF is_thr_interrupt_enabled(s)
       /\ BitAnd(s.interrupt_identification, IIR_THR_EMPTY_BIT) = 0
    THEN [Plain(add_interrupt(s, IIR_THR_EMPTY_BIT)) EXCEPT
              !.triggered = 1, !.cause = "thr"]
    ELSE Plain(s)

\* thr_empty_interrupt: Trigger invoked only when THR-empty is enabled and
\* not already the outstanding cause; trigger()'s error is the call's result.
thr_empty_interrupt(s, trig) ==
    IF is_thr_interrupt_enabled(s)
       /\ BitAnd(s.interrupt_identification, IIR_THR_EMPTY_BIT) = 0
    THEN [Plain(add_interrupt(s, IIR_THR_EMPTY_BIT)) EXCEPT
              !.triggered = 1, !.cause = "thr",
              !.result = IF trig = "ok" THEN "Ok" ELSE "Trigger"]
    ELSE Plain(s)

\* received_data_interrupt that fires at every byte (level-triggered).
received_data_interrupt_level(s, trig) ==
    IF is_rda_interrupt_enabled(s)
    THEN [Plain(add_interrupt(s, IIR_RDA_BIT)) EXCEPT
              !.triggered = 1, !.cause = "rda",
              !.result = IF trig = "ok" THEN "Ok" ELSE "Trigger"]
    ELSE Plain(s)

\* received_data_interrupt that invokes the Trigger first and records the
\* cause only when it succeeded.
received_data_interrupt_trigger_first(s, trig) ==
    IF is_rda_interrupt_enabled(s)
       /\ BitAnd(s.interrupt_identification, IIR_RDA_BIT) = 0
    THEN IF trig = "ok"
         THEN [Plain(add_interrupt(s, IIR_RDA_BIT)) EXCEPT
                   !.triggered = 1, !.cause = "rda"]
         ELSE [Plain(s) EXCEPT
                   !.triggered = 1, !.cause = "rda", !.result = "Trigger"]
    ELSE Plain(s)

\* received_data_interrupt: the same for the received-data cause.
received_data_interrupt(s, trig) ==
    IF is_rda_interrupt_enabled(s)
       /\ BitAnd(s.interrupt_identification, IIR_RDA_BIT) = 0
    THEN [Plain(add_interrupt(s, IIR_RDA_BIT)) EXCEPT
              !.triggered = 1, !.cause = "rda",
              !.result = IF trig = "ok" THEN "Ok" ELSE "Trigger"]
    ELSE Plain(s)

(***************************************************************************)
(* Serial::write                                                           *)
(***************************************************************************)
\* write_data that raises THR-empty before it hands the byte to the sink.
write_data_interrupt_first(s, value, sink, trig) ==
    IF is_in_loop_mode(s)
    THEN IF Len(s.in_buffer) < FIFO_SIZE
         THEN received_data_interrupt(
                  set_lsr_rda_bit([s EXCEPT !.in_buffer = Append(@, value)]),
                  trig)
         ELSE Plain(s)
    ELSE LET t == thr_empty_interrupt(s, trig)
         IN  IF t.result # "Ok"
             THEN t
             ELSE IF sink = "write_err"
                  THEN [t EXCEPT !.result = "IOError"]
                  ELSE IF sink = "flush_err"
                       THEN [t EXCEPT !.result = "IOError", !.sunk = <<value>>]
                       ELSE [t EXCEPT !.sunk = <<value>>, !.flushed = TRUE]

\* write_data whose loopback path drops the byte at FIFO_SIZE entries but
\* still sets the data-ready bit and raises the received-data interrupt.
write_data_full_flags(s, value, sink, trig) ==
    IF is_in_loop_mode(s)
    THEN received_data_interrupt(
             set_lsr_rda_bit(IF Len(s.in_buffer) < FIFO_SIZE
                             THEN [s EXCEPT !.in_buffer = Append(@, value)]
                             ELSE s),
             trig)
    ELSE IF sink = "write_err"
         THEN [Plain(s) EXCEPT !.result = "IOError"]
         ELSE IF sink = "flush_err"
              THEN [Plain(s) EXCEPT !.result = "IOError", !.sunk = <<value>>]
              ELSE [thr_empty_interrupt(s, trig) EXCEPT
                        !.sunk = <<value>>, !.flushed = TRUE]

\* write_data whose loopback path accepts a byte at FIFO_SIZE entries too.
write_data_off_by_one(s, value, sink, trig) ==
    IF is_in_loop_mode(s)
    THEN IF Len(s.in_buffer) <= FIFO_SIZE
         THEN received_data_interrupt(
                  set_lsr_rda_bit([s EXCEPT !.in_buffer = Append(@, value)]),
                  trig)
         ELSE Plain(s)
    ELSE IF sink = "write_err"
         THEN [Plain(s) EXCEPT !.result = "IOError"]
         ELSE IF sink = "flush_err"
              THEN [Plain(s) EXCEPT !.result = "IOError", !.sunk = <<value>>]
              ELSE [thr_empty_interrupt(s, trig) EXCEPT
                        !.sunk = <<value>>, !.flushed = TRUE]

\* write_data whose loopback path also hands the byte to the Output Sink.
write_data_tee(s, value, sink, trig) ==
    IF is_in_loop_mode(s)
    THEN [(IF Len(s.in_buffer) < FIFO_SIZE
           THEN received_data_interrupt(
                    set_lsr_rda_bit([s EXCEPT !.in_buffer = Append(@, value)]),
                    trig)
           ELSE Plain(s)) EXCEPT !.sunk = <<value>>, !.flushed = TRUE]
    ELSE IF sink = "write_err"
         THEN [Plain(s) EXCEPT !.result = "IOError"]
         ELSE IF sink = "flush_err"
              THEN [Plain(s) EXCEPT !.result = "IOError", !.sunk = <<value>>]
              ELSE [thr_empty_interrupt(s, trig) EXCEPT
                        !.sunk = <<value>>, !.flushed = TRUE]

write_data(s, value, sink, trig) ==
    IF is_in_loop_mode(s)
    THEN IF Len(s.in_buffer) < FIFO_SIZE
         THEN received_data_interrupt(
                  set_lsr_rda_bit([s EXCEPT !.in_buffer = Append(@, value)]),
                  trig)
         ELSE Plain(s)
    ELSE IF sink = "write_err"
         THEN [Plain(s) EXCEPT !.result = "IOError"]
         ELSE IF sink = "flush_err"
              THEN [Plain(s) EXCEPT !.result = "IOError", !.sunk = <<value>>]
              ELSE [thr_empty_interrupt(s, trig) EXCEPT
                        !.sunk = <<value>>, !.flushed = TRUE]

\* write_register whose Interrupt Enable arm marks received-data
\* outstanding when it enables the interrupt while the data-ready bit is set.
write_register_ier_marks(s, offset, value) ==
    IF offset = IER_OFFSET
    THEN LET e == [s EXCEPT !.interrupt_enable = BitAnd(value, IER_UART_VALID_BITS)]
         IN  IF is_rda_interrupt_enabled(e)
                /\ BitAnd(s.line_status, LSR_DATA_READY_BIT) # 0
             THEN add_interrupt(e, IIR_RDA_BIT)
             ELSE e
    ELSE IF offset = LCR_OFFSET
    THEN [s EXCEPT !.line_control = value]
    ELSE IF offset = MCR_OFFSET
    THEN [s EXCEPT !.modem_control = value]
    ELSE IF offset = SCR_OFFSET
    THEN [s EXCEPT !.scratch = value]
    ELSE s

\* write_register whose Modem Status arm stores the byte.
write_register_msr(s, offset, value) ==
    IF offset = IER_OFFSET
    THEN [s EXCEPT !.interrupt_enable = BitAnd(value, IER_UART_VALID_BITS)]
    ELSE IF offset = LCR_OFFSET
    THEN [s EXCEPT !.line_control = value]
    ELSE IF offset = MCR_OFFSET
    THEN [s EXCEPT !.modem_control = value]
    ELSE IF offset = SCR_OFFSET
    THEN [s EXCEPT !.scratch = value]
    ELSE IF offset = MSR_OFFSET
    THEN [s EXCEPT !.modem_status = value]
    ELSE s

\* write_register that stores the Interrupt Enable byte unmasked.
write_register_unmasked(s, offset, value) ==
    IF offset = IER_OFFSET
    THEN [s EXCEPT !.interrupt_enable = value]
    ELSE IF offset = LCR_OFFSET
    THEN [s EXCEPT !.line_control = value]
    ELSE IF offset = MCR_OFFSET
    THEN [s EXCEPT !.modem_control = value]
    ELSE IF offset = SCR_OFFSET
    THEN [s EXCEPT !.scratch = value]
    ELSE s

\* write_register that keeps only the five defined bits of Modem Control.
write_register_mcr_masked(s, offset, value) ==
    IF offset = IER_OFFSET
    THEN [s EXCEPT !.interrupt_enable = BitAnd(value, IER_UART_VALID_BITS)]
    ELSE IF offset = LCR_OFFSET
    THEN [s EXCEPT !.line_control = value]
    ELSE IF offset = MCR_OFFSET
    THEN [s EXCEPT !.modem_control = BitAnd(value, 31)]
    ELSE IF offset = SCR_OFFSET
    THEN [s EXCEPT !.scratch = value]
    ELSE s

\* write_register whose default arm stores into the Scratch register.
write_register_default_scratch(s, offset, value) ==
    IF offset = IER_OFFSET
    THEN [s EXCEPT !.interrupt_enable = BitAnd(value, IER_UART_VALID_BITS)]
    ELSE IF offset = LCR_OFFSET
    THEN [s EXCEPT !.line_control = value]
    ELSE IF offset = MCR_OFFSET
    THEN [s EXCEPT !.modem_control = value]
    ELSE IF offset \in {IIR_OFFSET, LSR_OFFSET, MSR_OFFSET}
    THEN s
    ELSE [s EXCEPT !.scratch = value]

\* The arms of write that only store a register (and the ignored offsets).
write_register(s, offset, value) ==
    IF offset = IER_OFFSET
    THEN [s EXCEPT !.interrupt_enable = BitAnd(value, IER_UART_VALID_BITS)]
    ELSE IF offset = LCR_OFFSET
    THEN [s EXCEPT !.line_control = value]
    ELSE IF offset = MCR_OFFSET
    THEN [s EXCEPT !.modem_control = value]
    ELSE IF offset = SCR_OFFSET
    THEN [s EXCEPT !.scratch = value]
    ELSE s

\* write without the two DLAB arms: offsets 0 and 1 always reach the data
\* path and Interrupt Enable.
write_ignoring_dlab(s, offset, value, sink, trig) ==
    IF offset = DATA_OFFSET
    THEN write_data(s, value, sink, trig)
    ELSE Plain(write_register(s, offset, value))

write(s, offset, value, sink, trig) ==
    IF offset = DLAB_LOW_OFFSET /\ is_dlab_set(s)
    THEN Plain([s EXCEPT !.baud_divisor_low = value])
    ELSE IF offset = DLAB_HIGH_OFFSET /\ is_dlab_set(s)
    THEN Plain([s EXCEPT !.baud_divisor_high = value])
    ELSE IF offset = DATA_OFFSET
    THEN write_data(s, value, sink, trig)
    ELSE Plain(write_register(s, offset, value))

(***************************************************************************)
(* Serial::read                                                            *)
(***************************************************************************)
Returned(s, value) == [serial |-> s, ret |-> value]

\* read_data that takes the newest byte of the queue.
read_data_pop_back(s) ==
    LET s1 == del_interrupt(s, IIR_RDA_BIT)
        s2 == IF Len(s1.in_buffer) <= 1 THEN clear_lsr_rda_bit(s1) ELSE s1
        n == Len(s2.in_buffer)
    IN  IF n = 0
        THEN Returned(s2, 0)
        ELSE Returned([s2 EXCEPT !.in_buffer = SubSeq(@, 1, n - 1)], s2.in_buffer[n])

\* read_data that clears the data-ready bit at every read.
read_data_clear_always(s) ==
    LET s1 == del_interrupt(s, IIR_RDA_BIT)
        s2 == clear_lsr_rda_bit(s1)
    IN  IF s2.in_buffer = <<>>
        THEN Returned(s2, 0)
        ELSE Returned([s2 EXCEPT !.in_buffer = Tail(@)], Head(s2.in_buffer))

\* read_data that clears the data-ready bit only on a read of an empty queue.
read_data_clear_when_empty(s) ==
    LET s1 == del_interrupt(s, IIR_RDA_BIT)
        s2 == IF Len(s1.in_buffer) < 1 THEN clear_lsr_rda_bit(s1) ELSE s1
    IN  IF s2.in_buffer = <<>>
        THEN Returned(s2, 0)
        ELSE Returned([s2 EXCEPT !.in_buffer = Tail(@)], Head(s2.in_buffer))

\* read_data that clears the data-ready bit while one byte will remain.
read_data_clear_at_two(s) ==
    LET s1 == del_interrupt(s, IIR_RDA_BIT)
        s2 == IF Len(s1.in_buffer) <= 2 THEN clear_lsr_rda_bit(s1) ELSE s1
    IN  IF s2.in_buffer = <<>>
        THEN Returned(s2, 0)
        ELSE Returned([s2 EXCEPT !.in_buffer = Tail(@)], Head(s2.in_buffer))

read_data(s) ==
    LET s1 == del_interrupt(s, IIR_RDA_BIT)
        s2 == IF Len(s1.in_buffer) <= 1 THEN clear_lsr_rda_bit(s1) ELSE s1
    IN  IF s2.in_buffer = <<>>
        THEN Returned(s2, 0)
        ELSE Returned([s2 EXCEPT !.in_buffer = Tail(@)], Head(s2.in_buffer))

\* read_msr with DTR and RTS mirrored into each other's input bit.
read_msr_swapped(s) ==
    IF is_in_loop_mode(s)
    THEN LET msr0 == BitAnd(s.modem_status,
                       BitNot(BitOr(BitOr(MSR_DSR_BIT, MSR_CTS_BIT),
                                    BitOr(MSR_RI_BIT, MSR_DCD_BIT))))
             msr1 == IF BitAnd(s.modem_control, MCR_DTR_BIT) # 0
                     THEN BitOr(msr0, MSR_CTS_BIT) ELSE msr0
             msr2 == IF BitAnd(s.modem_control, MCR_RTS_BIT) # 0
                     THEN BitOr(msr1, MSR_DSR_BIT) ELSE msr1
             msr3 == IF BitAnd(s.modem_control, MCR_OUT1_BIT) # 0
                     THEN BitOr(msr2, MSR_RI_BIT) ELSE msr2
         IN  IF BitAnd(s.modem_control, MCR_OUT2_BIT) # 0
             THEN BitOr(msr3, MSR_DCD_BIT) ELSE msr3
    ELSE s.modem_status

read_msr(s) ==
    IF is_in_loop_mode(s)
    THEN LET msr0 == BitAnd(s.modem_status,
                       BitNot(BitOr(BitOr(MSR_DSR_BIT, MSR_CTS_BIT),
                                    BitOr(MSR_RI_BIT, MSR_DCD_BIT))))
             msr1 == IF BitAnd(s.modem_control, MCR_DTR_BIT) # 0
                     THEN BitOr(msr0, MSR_DSR_BIT) ELSE msr0
             msr2 == IF BitAnd(s.modem_control, MCR_RTS_BIT) # 0
                     THEN BitOr(msr1, MSR_CTS_BIT) ELSE msr1
             msr3 == IF BitAnd(s.modem_control, MCR_OUT1_BIT) # 0
                     THEN BitOr(msr2, MSR_RI_BIT) ELSE msr2
         IN  IF BitAnd(s.modem_control, MCR_OUT2_BIT) # 0
             THEN BitOr(msr3, MSR_DCD_BIT) ELSE msr3
    ELSE s.modem_status

\* read whose Line Status arm clears the data-ready bit it returned.
read_lsr_clears(s, offset) ==
    IF offset = DLAB_LOW_OFFSET /\ is_dlab_set(s)
    THEN Returned(s, s.baud_divisor_low)
    ELSE IF offset = DLAB_HIGH_OFFSET /\ is_dlab_set(s)
    THEN Returned(s, s.baud_divisor_high)
    ELSE IF offset = DATA_OFFSET
    THEN read_data(s)
    ELSE IF offset = IER_OFFSET
    THEN Returned(s, s.interrupt_enable)
    ELSE IF offset = IIR_OFFSET
    THEN Returned(reset_iir(s), BitOr(s.interrupt_identification, IIR_FIFO_BITS))
    ELSE IF offset = LCR_OFFSET
    THEN Returned(s, s.line_control)
    ELSE IF offset = MCR_OFFSET
    THEN Returned(s, s.modem_control)
    ELSE IF offset = LSR_OFFSET
    THEN Returned(clear_lsr_rda_bit(s), s.line_status)
    ELSE IF offset = MSR_OFFSET
    THEN Returned(s, read_msr(s))
    ELSE IF offset = SCR_OFFSET
    THEN Returned(s, s.scratch)
    ELSE Returned(s, 0)

\* read whose offsets 0 and 1 return the divisor bytes whatever DLAB is.
read_ignoring_dlab(s, offset) ==
    IF offset = DLAB_LOW_OFFSET
    THEN Returned(s, s.baud_divisor_low)
    ELSE IF offset = DLAB_HIGH_OFFSET
    THEN Returned(s, s.baud_divisor_high)
    ELSE IF offset = IIR_OFFSET
    THEN Returned(reset_iir(s), BitOr(s.interrupt_identification, IIR_FIFO_BITS))
    ELSE IF offset = LCR_OFFSET
    THEN Returned(s, s.line_control)
    ELSE IF offset = MCR_OFFSET
    THEN Returned(s, s.modem_control)
    ELSE IF offset = LSR_OFFSET
    THEN Returned(s, s.line_status)
    ELSE IF offset = MSR_OFFSET
    THEN Returned(s, read_msr(s))
    ELSE IF offset = SCR_OFFSET
    THEN Returned(s, s.scratch)
    ELSE Returned(s, 0)

read(s, offset) ==
    IF offset = DLAB_LOW_OFFSET /\ is_dlab_set(s)
    THEN Returned(s, s.baud_divisor_low)
    ELSE IF offset = DLAB_HIGH_OFFSET /\ is_dlab_set(s)
    THEN Returned(s, s.baud_divisor_high)
    ELSE IF offset = DATA_OFFSET
    THEN read_data(s)
    ELSE IF offset = IER_OFFSET
    THEN Returned(s, s.interrupt_enable)
    ELSE IF offset = IIR_OFFSET
    THEN Returned(reset_iir(s), BitOr(s.interrupt_identification, IIR_FIFO_BITS))
    ELSE IF offset = LCR_OFFSET
    THEN Returned(s, s.line_control)
    ELSE IF offset = MCR_OFFSET
    THEN Returned(s, s.modem_control)
    ELSE IF offset = LSR_OFFSET
    THEN Returned(s, s.line_status)
    ELSE IF offset = MSR_OFFSET
    THEN Returned(s, read_msr(s))
    ELSE IF offset = SCR_OFFSET
    THEN Returned(s, s.scratch)
    ELSE Returned(s, 0)

(***************************************************************************)
(* Serial::enqueue_raw_bytes                                               *)
(***************************************************************************)
\* enqueue_raw_bytes that keeps only the bytes that fit under FIFO_SIZE.
enqueue_raw_bytes_capped(s, input, trig) ==
    IF ~is_in_loop_mode(s)
    THEN LET room == FIFO_SIZE - Len(s.in_buffer)
             kept == IF Len(input) <= room THEN input ELSE SubSeq(input, 1, room)
         IN  received_data_interrupt(
                 set_lsr_rda_bit([s EXCEPT !.in_buffer = @ \o kept]), trig)
    ELSE Plain(s)

\* enqueue_raw_bytes without the loopback test.
enqueue_raw_bytes_in_loop_mode(s, input, trig) ==
    received_data_interrupt(
        set_lsr_rda_bit([s EXCEPT !.in_buffer = @ \o input]), trig)

enqueue_raw_bytes(s, input, trig) ==
    IF ~is_in_loop_mode(s)
    THEN received_data_interrupt(
             set_lsr_rda_bit([s EXCEPT !.in_buffer = @ \o input]), trig)
    ELSE Plain(s)

(***************************************************************************)
(* I8042Device (src/src/i8042.rs): the reset-only keyboard controller.     *)
(***************************************************************************)
COMMAND_OFFSET == 4
CMD_RESET_CPU == 254

\* No access to the device was made yet.
NoAccess ==
    [op |-> "none", offset |-> 0, value |-> 0, result |-> "Ok", ret |-> 0, event |-> 0]

\* EventFd::write returns Ok or its io::Error.
EventOutcomes == {"ok", "err"}

I8042Device_read(offset) == 0

\* I8042Device::write that takes every command byte for the reset command.
I8042Device_write_any_command(offset, value, evt) ==
    IF offset = COMMAND_OFFSET
    THEN [result |-> IF evt = "ok" THEN "Ok" ELSE "TriggerInterrupt", event |-> 1]
    ELSE [result |-> "Ok", event |-> 0]

\* result: what the call returns; event: the reset_evt.write(1) calls made.
I8042Device_write(offset, value, evt) ==
    IF offset = COMMAND_OFFSET /\ value = CMD_RESET_CPU
    THEN [result |-> IF evt = "ok" THEN "Ok" ELSE "TriggerInterrupt", event |-> 1]
    ELSE [result |-> "Ok", event |-> 0]

(***************************************************************************)
(* RTC (src/src/rtc_pl031.rs): the PL031 real-time clock.  A u32 is kept   *)
(* as its two 16-bit halves, value = hi * 65536 + lo, and the arithmetic   *)
(* on it carries between the halves and drops the carry out of bit 31.     *)
(***************************************************************************)
RTCDR == 0
RTCMR == 4
RTCLR == 8
RTCCR == 12
RTCIMSC == 16
RTCRIS == 20
RTCMIS == 24
RTCICR == 28
AMBA_IDS == <<49, 16, 4, 0, 13, 240, 5, 177>>
AMBA_ID_LOW == 4064
AMBA_ID_HIGH == 4095

\* One half of a u32.
Half == 65536

\* The clock ticks this many times a second; as_secs() drops the rest.
TicksPerSecond == 2

\* `n as u32` for a non-negative n.
U32(n) == [hi |-> (n \div Half) % Half, lo |-> n % Half]

from_le_bytes(data) ==
    [hi |-> data[3] + 256 * data[4], lo |-> data[1] + 256 * data[2]]

to_le_bytes(v) ==
    <<v.lo % 256, v.lo \div 256, v.hi % 256, v.hi \div 256>>

wrapping_add(a, b) ==
    [hi |-> (a.hi + b.hi + ((a.lo + b.lo) \div Half)) % Half,
     lo |-> (a.lo + b.lo) % Half]

\* a & b on u32.
And32(a, b) ==
    from_le_bytes([i \in 1..4 |-> BitAnd(to_le_bytes(a)[i], to_le_bytes(b)[i])])

\* !a on u32.
Not32(a) == [hi |-> Half - 1 - a.hi, lo |-> Half - 1 - a.lo]

\* RTC::new at clock t.
RTC_new(t) ==
    [counter |-> t, lr |-> U32(0), mr |-> U32(0), imsc |-> U32(0), ris |-> U32(0)]

\* RTC::get_rtc_value with a saturating addition.
get_rtc_value_saturating(r, t) ==
    LET secs == U32((t - r.counter) \div TicksPerSecond)
    IN  IF r.lr.hi + secs.hi + ((r.lr.lo + secs.lo) \div Half) >= Half
        THEN [hi |-> Half - 1, lo |-> Half - 1]
        ELSE wrapping_add(secs, r.lr)

\* RTC::get_rtc_value at clock t.
get_rtc_value(r, t) ==
    wrapping_add(U32((t - r.counter) \div TicksPerSecond), r.lr)

\* RTC::write that stores the whole value in the interrupt mask.
RTC_write_unmasked(r, t, offset, data) ==
    LET val == from_le_bytes(data)
    IN  IF offset = RTCMR THEN [r EXCEPT !.mr = val]
        ELSE IF offset = RTCLR THEN [r EXCEPT !.counter = t, !.lr = val]
        ELSE IF offset = RTCCR
             THEN IF val = U32(1) THEN [r EXCEPT !.counter = t, !.lr = U32(0)] ELSE r
        ELSE IF offset = RTCIMSC THEN [r EXCEPT !.imsc = val]
        ELSE IF offset = RTCICR THEN [r EXCEPT !.ris = And32(r.ris, Not32(val))]
        ELSE r

\* RTC::write at clock t: the RTC after the call.
RTC_write(r, t, offset, data) ==
    LET val == from_le_bytes(data)
    IN  IF offset = RTCMR THEN [r EXCEPT !.mr = val]
        ELSE IF offset = RTCLR THEN [r EXCEPT !.counter = t, !.lr = val]
        ELSE IF offset = RTCCR
             THEN IF val = U32(1) THEN [r EXCEPT !.counter = t, !.lr = U32(0)] ELSE r
        ELSE IF offset = RTCIMSC THEN [r EXCEPT !.imsc = And32(val, U32(1))]
        ELSE IF offset = RTCICR THEN [r EXCEPT !.ris = And32(r.ris, Not32(val))]
        ELSE r

\* RTC::read at clock t: the buffer after the call (the RTC is unchanged).
RTC_read(r, t, offset, data) ==
    IF offset >= AMBA_ID_LOW /\ offset <= AMBA_ID_HIGH
    THEN to_le_bytes(U32(AMBA_IDS[((offset - AMBA_ID_LOW) \div 4) + 1]))
    ELSE IF offset = RTCDR THEN to_le_bytes(get_rtc_value(r, t))
    ELSE IF offset = RTCMR THEN to_le_bytes(r.mr)
    ELSE IF offset = RTCLR THEN to_le_bytes(r.lr)
    ELSE IF offset = RTCCR THEN to_le_bytes(U32(1))
    ELSE IF offset = RTCIMSC THEN to_le_bytes(r.imsc)
    ELSE IF offset = RTCRIS THEN to_le_bytes(r.ris)
    ELSE IF offset = RTCMIS THEN to_le_bytes(And32(r.ris, r.imsc))
    ELSE data

(***************************************************************************)
(* Bounds of the model and the inputs the callers draw from.               *)
(***************************************************************************)
\* Spec keeps the Receive Queue at or below this length.
MaxQueue == 2
\* SpecFifo lets injections grow the Receive Queue up to this length.
MaxFifo == 66
\* SpecLoop writes at most this many bytes before it reads them back.
MaxBurst == 66
\* SpecSink makes at most this many data-register writes on the sink path.
MaxSink == 3

\* SpecSink: the loopback writes queue at most this many bytes.
MaxSinkQueue == 1

\* SpecQueue: the bytes accepted into the Receive Queue over a run.
MaxAccepted == 7

\* The reset EventFd counts at most this many undrained resets.
MaxResets == 3

\* The clock stops after this many ticks.
MaxTicks == 3

\* Offsets 0..7 are the registers; 8 stands for every offset outside them.
Offsets == 0..8

\* The bytes a driver writes at each offset in Spec.
WriteValues(s, offset) ==
    IF offset = DLAB_LOW_OFFSET /\ is_dlab_set(s) THEN {52}
    ELSE IF offset = DLAB_HIGH_OFFSET /\ is_dlab_set(s) THEN {18}
    ELSE IF offset = DATA_OFFSET THEN {65}
    ELSE IF offset = IER_OFFSET THEN {0, IER_RDA_BIT, IER_THR_EMPTY_BIT, 255}
    ELSE IF offset = LCR_OFFSET THEN {DEFAULT_LINE_CONTROL, LCR_DLAB_BIT}
    ELSE IF offset = MCR_OFFSET
         THEN {DEFAULT_MODEM_CONTROL, MCR_LOOP_BIT,
               MCR_LOOP_BIT + MCR_DTR_BIT + MCR_RTS_BIT}
    ELSE {18}

\* The slices a host injects in Spec.
RawInputs == {<<>>, <<97>>, <<97, 98>>}

\* The bytes the claims about "any byte" are tried with: no bit, every
\* single bit, every bit.
ProbeBytes == {0, 1, 2, 4, 8, 16, 32, 64, 128, 255}

\* The Modem Control bytes the claims about "every value" are tried with:
\* every combination of the four outputs with the loopback bit set, some
\* with it clear, and the undefined bits set.
McrProbes == (16..31) \cup {0, 8, 15, 240, 255}

\* Offsets outside the eight registers that the claims about "every offset"
\* are tried with.
HighOffsets == {8, 9, 15, 16, 64, 128, 254, 255}

\* What the two capabilities can answer during one call: <<sink, trigger>>.
\* A call reaches the Trigger only after the sink accepted the byte.
Outcomes ==
    {<<"ok", "ok">>, <<"write_err", "ok">>, <<"flush_err", "ok">>, <<"ok", "err">>}

\* Only the data register reaches the capabilities.
OutcomesAt(offset) ==
    IF offset = DATA_OFFSET THEN Outcomes ELSE {<<"ok", "ok">>}

(***************************************************************************)
(* Bookkeeping of what the callers observed.                               *)
(***************************************************************************)
Min(a, b) == IF a < b THEN a ELSE b

\* No loopback write yet since the received-data cause was acknowledged.
\* made: the writes since then (2 stands for two or more); accepted: those
\* of them that were appended to the queue.
NoBurst == [made |-> 0, accepted |-> 0]

\* A data-register write that takes the loopback path with RDA enabled.
IsLoopbackDataWrite(s, offset) ==
    /\ offset = DATA_OFFSET
    /\ ~is_dlab_set(s)
    /\ is_in_loop_mode(s)
    /\ is_rda_interrupt_enabled(s)

\* A read that acknowledges the received-data cause.
AcksRda(s, offset) ==
    \/ offset = IIR_OFFSET
    \/ offset = DATA_OFFSET /\ ~is_dlab_set(s)

\* A read that acknowledges the THR-empty cause.
AcksThr(s, offset) == offset = IIR_OFFSET

Count(r) ==
    IF r.cause = "none" THEN signalled
    ELSE [signalled EXCEPT ![r.cause] = @ + r.triggered]

(***************************************************************************)
(* The operations as actions.                                              *)
(***************************************************************************)
Init ==
    /\ serial = new
    /\ signalled = [rda |-> 0, thr |-> 0]
    /\ burst = NoBurst
    /\ ier_written = 0
    /\ sent = <<>>
    /\ got = <<>>
    /\ out = <<>>
    /\ tx = <<>>
    /\ reset_evt = 0
    /\ i8042_last = NoAccess
    /\ rtc = RTC_new(0)
    /\ now = 0
    /\ loaded_at = 0
    /\ rtc_data = <<0, 0, 0, 0>>
    /\ rtc_offset = -1

DoWrite(offset, value, sink, trig) ==
    LET r == write(serial, offset, value, sink, trig)
    IN  /\ serial' = r.serial
        /\ signalled' = Count(r)
        /\ burst' = IF IsLoopbackDataWrite(serial, offset)
                    THEN [burst EXCEPT
                              !.made = Min(2, @ + 1),
                              !.accepted = Min(2, @ + Len(r.serial.in_buffer)
                                                    - Len(serial.in_buffer))]
                    ELSE burst
        /\ ier_written' = IF offset = IER_OFFSET /\ ~is_dlab_set(serial)
                          THEN value ELSE ier_written

DoRead(offset) ==
    LET r == read(serial, offset)
    IN  /\ serial' = r.serial
        /\ signalled' = [rda |-> IF AcksRda(serial, offset) THEN 0 ELSE signalled.rda,
                         thr |-> IF AcksThr(serial, offset) THEN 0 ELSE signalled.thr]
        /\ burst' = IF AcksRda(serial, offset) THEN NoBurst ELSE burst
        /\ UNCHANGED ier_written

DoEnqueue(input, trig) ==
    LET r == enqueue_raw_bytes(serial, input, trig)
    IN  /\ serial' = r.serial
        /\ signalled' = Count(r)
        /\ UNCHANGED <<burst, ier_written>>

\* Spec: every register, small byte sets, the queue kept short.
Write ==
    \E offset \in Offsets : \E value \in WriteValues(serial, offset) :
        \E env \in OutcomesAt(offset) :
            /\ \/ Len(serial.in_buffer) < MaxQueue
               \/ ~(offset = DATA_OFFSET /\ is_in_loop_mode(serial))
               \/ is_dlab_set(serial)
            /\ DoWrite(offset, value, env[1], env[2])
            /\ UNCHANGED <<sent, got, out, tx, i8042_vars, rtc_vars>>

Read ==
    \E offset \in Offsets :
        /\ DoRead(offset)
        /\ UNCHANGED <<sent, got, out, tx, i8042_vars, rtc_vars>>

Enqueue ==
    \E input \in RawInputs, trig \in TriggerOutcomes :
        /\ is_in_loop_mode(serial) \/ Len(serial.in_buffer) + Len(input) <= MaxQueue
        /\ DoEnqueue(input, trig)
        /\ UNCHANGED <<sent, got, out, tx, i8042_vars, rtc_vars>>

Next == Write \/ Read \/ Enqueue

Spec == Init /\ [][Next]_vars

(***************************************************************************)
(* SpecFifo: the data path alone (DLAB stays clear), every data byte the   *)
(* same, the queue allowed to fill and to overflow.                        *)
(***************************************************************************)
FifoOffsets == {DATA_OFFSET, IER_OFFSET, MCR_OFFSET}

FifoValues(offset) ==
    IF offset = DATA_OFFSET THEN {65}
    ELSE IF offset = IER_OFFSET
         THEN {0, IER_RDA_BIT, IER_THR_EMPTY_BIT, IER_RDA_BIT + IER_THR_EMPTY_BIT}
    ELSE {DEFAULT_MODEM_CONTROL, MCR_LOOP_BIT}

FifoInputs == {<<>>, <<65>>, <<65, 65, 65>>}

FifoWrite ==
    \E offset \in FifoOffsets : \E value \in FifoValues(offset) :
        \E env \in OutcomesAt(offset) :
            /\ DoWrite(offset, value, env[1], env[2])
            /\ UNCHANGED <<sent, got, out, tx, i8042_vars, rtc_vars>>

FifoRead ==
    \E offset \in {DATA_OFFSET, IIR_OFFSET, LSR_OFFSET} :
        /\ DoRead(offset)
        /\ UNCHANGED <<sent, got, out, tx, i8042_vars, rtc_vars>>

FifoEnqueue ==
    \E input \in FifoInputs, trig \in TriggerOutcomes :
        /\ is_in_loop_mode(serial) \/ Len(serial.in_buffer) + Len(input) <= MaxFifo
        /\ DoEnqueue(input, trig)
        /\ UNCHANGED <<sent, got, out, tx, i8042_vars, rtc_vars>>

NextFifo == FifoWrite \/ FifoRead \/ FifoEnqueue

SpecFifo == Init /\ [][NextFifo]_vars

(***************************************************************************)
(* SpecLoop: test_serial_loop_mode for every burst length.  The driver     *)
(* sets the device up, writes bytes 1, 2, 3, ... to the data register in   *)
(* loopback mode and then reads them back.                                 *)
(***************************************************************************)
LoopSetup ==
    /\ sent = <<>>
    /\ \E offset \in {IER_OFFSET, MCR_OFFSET} : \E value \in FifoValues(offset) :
           DoWrite(offset, value, "ok", "ok")
    /\ UNCHANGED <<sent, got, out, tx, i8042_vars, rtc_vars>>

LoopWrite ==
    /\ is_in_loop_mode(serial)
    /\ got = <<>>
    /\ Len(sent) < MaxBurst
    /\ \E trig \in TriggerOutcomes :
           DoWrite(DATA_OFFSET, Len(sent) + 1, "ok", trig)
    /\ sent' = Append(sent, Len(sent) + 1)
    /\ UNCHANGED <<got, out, tx, i8042_vars, rtc_vars>>

LoopRead ==
    /\ is_in_loop_mode(serial)
    /\ Len(got) < Len(sent)
    /\ DoRead(DATA_OFFSET)
    /\ got' = Append(got, read(serial, DATA_OFFSET).ret)
    /\ UNCHANGED <<sent, out, tx, i8042_vars, rtc_vars>>

NextLoop == LoopSetup \/ LoopWrite \/ LoopRead

SpecLoop == Init /\ [][NextLoop]_vars

(***************************************************************************)
(* SpecSink: test_serial_output with the sink recorded.  The driver writes *)
(* bytes to offset 0 with loopback and DLAB switched on and off in         *)
(* between; the sink and the Trigger may fail.                             *)
(***************************************************************************)
SinkOffsets == {DATA_OFFSET, IER_OFFSET, LCR_OFFSET, MCR_OFFSET}

\* The driver sends RAW_INPUT_BUF over and over, one byte per data write
\* on the sink path.
RAW_INPUT_BUF == <<97, 98, 99>>

SinkValues(offset) ==
    IF offset = DATA_OFFSET THEN {RAW_INPUT_BUF[(Len(tx) % 3) + 1]}
    ELSE IF offset = IER_OFFSET THEN {0, IER_THR_EMPTY_BIT}
    ELSE IF offset = LCR_OFFSET THEN {DEFAULT_LINE_CONTROL, LCR_DLAB_BIT}
    ELSE {DEFAULT_MODEM_CONTROL, MCR_LOOP_BIT}

\* The write takes the sink path: the data register, DLAB clear, no loopback.
TakesSinkPath(s, offset) ==
    /\ offset = DATA_OFFSET
    /\ ~is_dlab_set(s)
    /\ ~is_in_loop_mode(s)

\* What the sink holds after the call that reported r: the byte if
\* write_all took it, marked with whether the flush after it succeeded.
Delivered(r) ==
    IF r.sunk = <<>> THEN out
    ELSE Append(out, [byte |-> r.sunk[1], flushed |-> r.flushed])

SinkWrite ==
    \E offset \in SinkOffsets : \E value \in SinkValues(offset) :
        \E env \in OutcomesAt(offset) :
            /\ TakesSinkPath(serial, offset) => Len(tx) < MaxSink
            /\ (offset = DATA_OFFSET /\ ~is_dlab_set(serial) /\ is_in_loop_mode(serial))
                   => Len(serial.in_buffer) < MaxSinkQueue
            /\ DoWrite(offset, value, env[1], env[2])
            /\ out' = Delivered(write(serial, offset, value, env[1], env[2]))
            /\ tx' = IF TakesSinkPath(serial, offset)
                     THEN Append(tx, [value |-> value, sink |-> env[1]])
                     ELSE tx
            /\ UNCHANGED <<sent, got, i8042_vars, rtc_vars>>

SinkRead ==
    \E offset \in {DATA_OFFSET, IIR_OFFSET} :
        /\ DoRead(offset)
        /\ UNCHANGED <<sent, got, out, tx, i8042_vars, rtc_vars>>

NextSink == SinkWrite \/ SinkRead

SpecSink == Init /\ [][NextSink]_vars

(***************************************************************************)
(* SpecQueue: loopback data writes, injections and data-register reads in  *)
(* any order while the driver switches loopback mode and DLAB on and off.  *)
(* The n-th accepted byte is n when it was written and 128 + n when it was *)
(* injected, so every queued byte is told from every other.  sent is the   *)
(* bytes the calls accepted, got the bytes returned by the data-register   *)
(* reads that found the queue non-empty.                                   *)
(***************************************************************************)
\* The next k bytes a host injects.
Injected(k) == [i \in 1..k |-> 128 + Len(sent) + i]

QueueSwitch ==
    /\ \E offset \in {LCR_OFFSET, MCR_OFFSET} :
           \E value \in {DEFAULT_LINE_CONTROL, LCR_DLAB_BIT + DEFAULT_LINE_CONTROL,
                         DEFAULT_MODEM_CONTROL, MCR_LOOP_BIT} :
               /\ offset = LCR_OFFSET <=> BitAnd(value, DEFAULT_LINE_CONTROL) # 0
               /\ DoWrite(offset, value, "ok", "ok")
    /\ UNCHANGED <<sent, got, out, tx, i8042_vars, rtc_vars>>

QueueWrite ==
    /\ Len(sent) < MaxAccepted
    /\ LET value == IF is_dlab_set(serial) THEN 52 ELSE Len(sent) + 1
           w == write(serial, DATA_OFFSET, value, "ok", "ok")
           k == Len(w.serial.in_buffer) - Len(serial.in_buffer)
       IN  /\ DoWrite(DATA_OFFSET, value, "ok", "ok")
           /\ sent' = sent \o SubSeq(<<value>>, 1, k)
    /\ UNCHANGED <<got, out, tx, i8042_vars, rtc_vars>>

QueueEnqueue ==
    /\ \E n \in 0..3 :
           /\ Len(sent) + n <= MaxAccepted
           /\ LET q == enqueue_raw_bytes(serial, Injected(n), "ok")
                  k == Len(q.serial.in_buffer) - Len(serial.in_buffer)
              IN  /\ DoEnqueue(Injected(n), "ok")
                  /\ sent' = sent \o SubSeq(Injected(n), 1, k)
    /\ UNCHANGED <<got, out, tx, i8042_vars, rtc_vars>>

QueueRead ==
    /\ DoRead(DATA_OFFSET)
    /\ got' = IF ~is_dlab_set(serial) /\ serial.in_buffer # <<>>
              THEN Append(got, read(serial, DATA_OFFSET).ret)
              ELSE got
    /\ UNCHANGED <<sent, out, tx, i8042_vars, rtc_vars>>

NextQueue == QueueSwitch \/ QueueWrite \/ QueueEnqueue \/ QueueRead

SpecQueue == Init /\ [][NextQueue]_vars

(***************************************************************************)
(* SpecI8042: a driver writing and reading the i8042 registers while the   *)
(* host drains the reset EventFd (test_i8042_read_write_and_event).        *)
(***************************************************************************)
I8042Offsets == {0, 1, 3, COMMAND_OFFSET, 5, 8, 255}

I8042Values == {0, 1, CMD_RESET_CPU - 1, CMD_RESET_CPU, 255}

I8042Write ==
    \E offset \in I8042Offsets, value \in I8042Values, evt \in EventOutcomes :
        LET r == I8042Device_write(offset, value, evt)
            counted == r.event = 1 /\ evt = "ok"
        IN  /\ counted => reset_evt < MaxResets
            /\ reset_evt' = IF counted THEN reset_evt + 1 ELSE reset_evt
            /\ i8042_last' = [op |-> "write", offset |-> offset, value |-> value,
                              result |-> r.result, ret |-> 0, event |-> r.event]
            /\ UNCHANGED <<uart, rtc_vars>>

I8042Read ==
    \E offset \in I8042Offsets :
        /\ i8042_last' = [op |-> "read", offset |-> offset, value |-> 0,
                          result |-> "Ok", ret |-> I8042Device_read(offset),
                          event |-> 0]
        /\ UNCHANGED <<reset_evt, uart, rtc_vars>>

\* The host reads the EventFd, which resets its counter.
I8042Drain ==
    /\ reset_evt > 0
    /\ reset_evt' = 0
    /\ UNCHANGED <<i8042_last, uart, rtc_vars>>

NextI8042 == I8042Write \/ I8042Read \/ I8042Drain

SpecI8042 == Init /\ [][NextI8042]_vars

(***************************************************************************)
(* SpecRtc: a driver writing and reading the RTC registers while the clock *)
(* advances; the tests raise the raw interrupt status by hand.             *)
(***************************************************************************)
Max32 == [hi |-> Half - 1, lo |-> Half - 1]

RtcOffsets ==
    {RTCDR, RTCMR, RTCLR, RTCCR, RTCIMSC, RTCRIS, RTCMIS, RTCICR,
     RTCLR + 1, AMBA_ID_LOW, AMBA_ID_LOW + 5, AMBA_ID_HIGH + 4}

RtcValues == {U32(0), U32(1), U32(2), Max32}

RtcWrite ==
    \E offset \in RtcOffsets, val \in RtcValues :
        /\ rtc' = RTC_write(rtc, now, offset, to_le_bytes(val))
        /\ loaded_at' = IF offset = RTCLR \/ (offset = RTCCR /\ val = U32(1))
                        THEN now
                        ELSE loaded_at
        /\ UNCHANGED <<now, rtc_data, rtc_offset, uart, i8042_vars>>

RtcRead ==
    \E offset \in RtcOffsets :
        /\ rtc_data' = RTC_read(rtc, now, offset, rtc_data)
        /\ rtc_offset' = offset
        /\ UNCHANGED <<rtc, now, loaded_at, uart, i8042_vars>>

RtcTick ==
    /\ now < MaxTicks
    /\ now' = now + 1
    /\ UNCHANGED <<rtc, loaded_at, rtc_data, rtc_offset, uart, i8042_vars>>

\* rtc.ris = 1, as the tests set it.
RtcRaise ==
    /\ rtc' = [rtc EXCEPT !.ris = U32(1)]
    /\ UNCHANGED <<now, loaded_at, rtc_data, rtc_offset, uart, i8042_vars>>

NextRtc == RtcWrite \/ RtcRead \/ RtcTick \/ RtcRaise

SpecRtc == Init /\ [][NextRtc]_vars

(***************************************************************************)
(* The snapshot of a Serial and its serializable mirror                    *)
(* (src/vm-superio-ser/src/serial.rs).                                     *)
(***************************************************************************)
\* Serial::state: the snapshot of s, one field per register and the queue
\* as an ordered byte sequence.
state(s) ==
    [ baud_divisor_low |-> s.baud_divisor_low,
      baud_divisor_high |-> s.baud_divisor_high,
      interrupt_enable |-> s.interrupt_enable,
      interrupt_identification |-> s.interrupt_identification,
      line_control |-> s.line_control,
      line_status |-> s.line_status,
      modem_control |-> s.modem_control,
      modem_status |-> s.modem_status,
      scratch |-> s.scratch,
      in_buffer |-> s.in_buffer ]

\* Serial::from_state: the Serial rebuilt from the snapshot st.
from_state(st) ==
    [ baud_divisor_low |-> st.baud_divisor_low,
      baud_divisor_high |-> st.baud_divisor_high,
      interrupt_enable |-> st.interrupt_enable,
      interrupt_identification |-> st.interrupt_identification,
      line_control |-> st.line_control,
      line_status |-> st.line_status,
      modem_control |-> st.modem_control,
      modem_status |-> st.modem_status,
      scratch |-> st.scratch,
      in_buffer |-> st.in_buffer ]

\* From<&SerialStateSer> for SerialState.
SerialState_from(ser) ==
    [ baud_divisor_low |-> ser.baud_divisor_low,
      baud_divisor_high |-> ser.baud_divisor_high,
      interrupt_enable |-> ser.interrupt_enable,
      interrupt_identification |-> ser.interrupt_identification,
      line_control |-> ser.line_control,
      line_status |-> ser.line_status,
      modem_control |-> ser.modem_control,
      modem_status |-> ser.modem_status,
      scratch |-> ser.scratch,
      in_buffer |-> ser.in_buffer ]

\* From<&SerialState> for SerialStateSer that mirrors the queue back to front.
SerialStateSer_from_reversed(st) ==
    [ baud_divisor_low |-> st.baud_divisor_low,
      baud_divisor_high |-> st.baud_divisor_high,
      interrupt_enable |-> st.interrupt_enable,
      interrupt_identification |-> st.interrupt_identification,
      line_control |-> st.line_control,
      line_status |-> st.line_status,
      modem_control |-> st.modem_control,
      modem_status |-> st.modem_status,
      scratch |-> st.scratch,
      in_buffer |-> [i \in 1..Len(st.in_buffer) |->
                        st.in_buffer[Len(st.in_buffer) + 1 - i]] ]

\* From<&SerialState> for SerialStateSer.
SerialStateSer_from(st) ==
    [ baud_divisor_low |-> st.baud_divisor_low,
      baud_divisor_high |-> st.baud_divisor_high,
      interrupt_enable |-> st.interrupt_enable,
      interrupt_identification |-> st.interrupt_identification,
      line_control |-> st.line_control,
      line_status |-> st.line_status,
      modem_control |-> st.modem_control,
      modem_status |-> st.modem_status,
      scratch |-> st.scratch,
      in_buffer |-> st.in_buffer ]

(***************************************************************************)
(* The claims.                                                             *)
(***************************************************************************)
DataReady(s) == BitAnd(s.line_status, LSR_DATA_READY_BIT) # 0

RdaOutstanding(s) == BitAnd(s.interrupt_identification, IIR_RDA_BIT) # 0

ThrOutstanding(s) == BitAnd(s.interrupt_identification, IIR_THR_EMPTY_BIT) # 0

\* C1, as stated: between two acknowledgments of a cause the Interrupt
\* Signal is invoked at most once for it, and once two loopback data writes
\* were made with RDA enabled since the last acknowledgment it was invoked
\* exactly once.
C1_ExactlyOncePerBurst ==
    /\ signalled.rda <= 1
    /\ signalled.thr <= 1
    /\ burst.made = 2 => signalled.rda = 1

\* C1, amended: at most once per cause between acknowledgments; exactly once
\* over two loopback data writes (RDA enabled, no acknowledgment in between)
\* of which the first was appended to the queue.
C1_EdgeTriggered ==
    /\ signalled.rda <= 1
    /\ signalled.thr <= 1
    /\ (burst.made = 2 /\ burst.accepted >= 1) => signalled.rda = 1

\* Two loopback writes went into the queue since the acknowledgment and the
\* signal was invoked for the first only.
C1_Witness ==
    /\ burst.made = 2
    /\ burst.accepted = 2
    /\ signalled.rda = 1
    /\ RdaOutstanding(serial)

\* A step that is a read of the Interrupt Identification register.
IsIirRead ==
    /\ serial' = read(serial, IIR_OFFSET).serial
    /\ signalled' = [rda |-> 0, thr |-> 0]
    /\ burst' = NoBurst

\* Every data-register write made in state s invokes the Interrupt Signal.
NextDataWriteSignals(s) ==
    \A value \in ProbeBytes, env \in Outcomes :
        LET w == write(s, DATA_OFFSET, value, env[1], env[2])
        IN  w.triggered = 1 /\ w.cause = "rda"

\* C2, as stated: with RDA enabled and loopback active, a read of offset 2
\* leaves interrupt_identification at "none" and the data-register write
\* that follows it invokes the Interrupt Signal.
C2_IirReadRearms ==
    [][(IsIirRead /\ is_in_loop_mode(serial) /\ is_rda_interrupt_enabled(serial)
            /\ ~is_dlab_set(serial))
       => /\ serial'.interrupt_identification = IIR_NONE_BIT
          /\ NextDataWriteSignals(serial')]_vars

\* C2, amended: the same, the write that follows invoking the signal when
\* the queue holds fewer than FIFO_SIZE entries (a write to a full queue is
\* dropped and signals nothing).
C2_IirReadRearmsWithRoom ==
    [][(IsIirRead /\ is_in_loop_mode(serial) /\ is_rda_interrupt_enabled(serial)
            /\ ~is_dlab_set(serial))
       => /\ serial'.interrupt_identification = IIR_NONE_BIT
          /\ Len(serial'.in_buffer) < FIFO_SIZE => NextDataWriteSignals(serial')]_vars

\* Loopback, RDA enabled, bytes queued by loopback writes and the cause
\* acknowledged since: the next write has room and a cause to raise again.
C2_Witness ==
    /\ is_in_loop_mode(serial)
    /\ is_rda_interrupt_enabled(serial)
    /\ serial.interrupt_identification = IIR_NONE_BIT
    /\ serial.in_buffer # <<>>
    /\ Len(serial.in_buffer) < FIFO_SIZE
    /\ burst = NoBurst
    /\ signalled = [rda |-> 0, thr |-> 0]

\* C3: from an empty queue in loopback mode, after writing sent[1..n] and
\* then reading, the i-th read returns sent[i] for i <= FIFO_SIZE (and 0
\* beyond, the excess having been dropped), and the queue holds exactly the
\* kept bytes not read yet.
C3_FifoOrder ==
    /\ \A i \in 1..Len(got) : got[i] = IF i <= FIFO_SIZE THEN sent[i] ELSE 0
    /\ serial.in_buffer = SubSeq(sent, Len(got) + 1, Min(Len(sent), FIFO_SIZE))

\* More than FIFO_SIZE bytes were written and as many reads made.
C3_Witness ==
    /\ Len(sent) > FIFO_SIZE
    /\ Len(got) = Len(sent)

\* C4: while a byte is queued a read of Line Status shows data-ready, also
\* right before the read that takes the last byte; after the data-register
\* read that empties the queue a read of Line Status shows it clear.
C4_DataReadyUntilEmpty ==
    /\ serial.in_buffer # <<>>
           => BitAnd(read(serial, LSR_OFFSET).ret, LSR_DATA_READY_BIT) # 0
    /\ ~is_dlab_set(serial)
           => LET r == read(serial, DATA_OFFSET)
              IN  r.serial.in_buffer = <<>>
                      => BitAnd(read(r.serial, LSR_OFFSET).ret, LSR_DATA_READY_BIT) = 0

\* One byte is left to read and Line Status shows data-ready.
C4_Witness ==
    /\ Len(serial.in_buffer) = 1
    /\ ~is_dlab_set(serial)
    /\ DataReady(serial)

\* C5, as stated: after a data-register read, 0 or 1 remaining entries
\* imply a clear data-ready bit.
C5_ClearAtOneRemaining ==
    ~is_dlab_set(serial)
        => LET r == read(serial, DATA_OFFSET).serial
           IN  Len(r.in_buffer) <= 1 => ~DataReady(r)

\* C5, amended: after a data-register read the data-ready bit is clear when
\* no entry remains and still set when one or more remain.
C5_ClearAtNoneRemaining ==
    ~is_dlab_set(serial)
        => LET r == read(serial, DATA_OFFSET).serial
           IN  /\ Len(r.in_buffer) = 0 => ~DataReady(r)
               /\ Len(r.in_buffer) >= 1 => DataReady(r)

\* Two bytes are queued: the next data-register read leaves one.
C5_Witness ==
    /\ Len(serial.in_buffer) = 2
    /\ ~is_dlab_set(serial)
    /\ DataReady(serial)

\* C6: the Receive Queue never holds more than FIFO_SIZE entries.
C6_QueueBound == Len(serial.in_buffer) <= FIFO_SIZE

\* C7: the data-ready bit is set if and only if the Receive Queue is
\* non-empty.
C7_DataReadyIffNonEmpty == DataReady(serial) <=> serial.in_buffer # <<>>

\* C8: when neither cause bit is set in interrupt_identification the "no
\* interrupt" bit is set, and the register is never 0.
C8_NoneSentinel ==
    /\ (~RdaOutstanding(serial) /\ ~ThrOutstanding(serial))
           => BitAnd(serial.interrupt_identification, IIR_NONE_BIT) # 0
    /\ serial.interrupt_identification # 0

\* Both interrupts enabled and data queued, yet no cause outstanding: the
\* causes raised were acknowledged.
C8_Witness ==
    /\ serial.interrupt_identification = IIR_NONE_BIT
    /\ is_rda_interrupt_enabled(serial)
    /\ is_thr_interrupt_enabled(serial)
    /\ serial.in_buffer # <<>>
    /\ ~is_in_loop_mode(serial)

\* C9: interrupt_enable is the last byte written to offset 1 with DLAB
\* clear, ANDed with 0x0F (0 before any write); a read of offset 1 with DLAB
\* clear returns it, also right after any write there; its upper four bits
\* are never set.
C9_IerMasked ==
    /\ serial.interrupt_enable = BitAnd(ier_written, IER_UART_VALID_BITS)
    /\ BitAnd(serial.interrupt_enable, 240) = 0
    /\ ~is_dlab_set(serial)
           => /\ read(serial, IER_OFFSET).ret = BitAnd(ier_written, IER_UART_VALID_BITS)
              /\ \A value \in ProbeBytes :
                     read(write(serial, IER_OFFSET, value, "ok", "ok").serial,
                          IER_OFFSET).ret = BitAnd(value, IER_UART_VALID_BITS)

\* 0xFF was written to Interrupt Enable and 0x0F is stored.
C9_Witness ==
    /\ ier_written = 255
    /\ serial.interrupt_enable = IER_UART_VALID_BITS
    /\ ~is_dlab_set(serial)

\* C10: in any reachable state, write(offset, v) then read(offset) returns
\* v for Line Control, Modem Control and Scratch.
C10_RoundTrip ==
    \A offset \in {LCR_OFFSET, MCR_OFFSET, SCR_OFFSET} :
        \A value \in ProbeBytes, env \in OutcomesAt(offset) :
            LET w == write(serial, offset, value, env[1], env[2])
            IN  /\ w.result = "Ok"
                /\ read(w.serial, offset).ret = value

\* The three registers hold bytes the driver wrote, DLAB and loopback among
\* them.
C10_Witness ==
    /\ serial.line_control = LCR_DLAB_BIT
    /\ serial.modem_control = MCR_LOOP_BIT
    /\ serial.scratch = 18

\* The fields of two Serial values other than the two divisor bytes agree.
SameButDivisors(s1, s2) ==
    [s1 EXCEPT !.baud_divisor_low = 0, !.baud_divisor_high = 0]
        = [s2 EXCEPT !.baud_divisor_low = 0, !.baud_divisor_high = 0]

\* C11: while DLAB is set, a write at offset 0 (1) changes baud_divisor_low
\* (baud_divisor_high) and nothing else, delivers nothing to the Output Sink,
\* invokes no Interrupt Signal and succeeds whatever the capabilities would
\* answer; a read at offset 0 (1) returns the divisor byte and changes no
\* state.
C11_DlabFrame ==
    is_dlab_set(serial)
        => /\ \A value \in {0, 52, 255}, sink \in SinkOutcomes, trig \in TriggerOutcomes :
                  LET lo == write(serial, DLAB_LOW_OFFSET, value, sink, trig)
                      hi == write(serial, DLAB_HIGH_OFFSET, value, sink, trig)
                  IN  /\ lo.serial = [serial EXCEPT !.baud_divisor_low = value]
                      /\ hi.serial = [serial EXCEPT !.baud_divisor_high = value]
                      /\ lo.sunk = <<>> /\ hi.sunk = <<>>
                      /\ ~lo.flushed /\ ~hi.flushed
                      /\ lo.triggered = 0 /\ hi.triggered = 0
                      /\ lo.result = "Ok" /\ hi.result = "Ok"
           /\ read(serial, DLAB_LOW_OFFSET)
                  = Returned(serial, serial.baud_divisor_low)
           /\ read(serial, DLAB_HIGH_OFFSET)
                  = Returned(serial, serial.baud_divisor_high)

\* DLAB is set while a byte is queued, the received-data cause is
\* outstanding and both interrupts are enabled: a data-path access would
\* show.
C11_Witness ==
    /\ is_dlab_set(serial)
    /\ serial.in_buffer # <<>>
    /\ RdaOutstanding(serial)
    /\ is_thr_interrupt_enabled(serial)
    /\ ~is_in_loop_mode(serial)
    /\ serial.baud_divisor_low = 52

\* C12: while DLAB is clear no write, read or enqueue_raw_bytes changes
\* the divisor bytes; a read at offset 0 returns the oldest queued byte (0
\* when the queue is empty) and a read at offset 1 returns interrupt_enable,
\* whatever the divisor bytes hold.
C12_NoDlabFrame ==
    ~is_dlab_set(serial)
        => /\ \A offset \in Offsets :
                  /\ \A value \in {0, 255}, env \in OutcomesAt(offset) :
                         LET w == write(serial, offset, value, env[1], env[2])
                         IN  /\ w.serial.baud_divisor_low = serial.baud_divisor_low
                             /\ w.serial.baud_divisor_high = serial.baud_divisor_high
                  /\ LET r == read(serial, offset)
                     IN  /\ r.serial.baud_divisor_low = serial.baud_divisor_low
                         /\ r.serial.baud_divisor_high = serial.baud_divisor_high
           /\ \A input \in RawInputs, trig \in TriggerOutcomes :
                  LET q == enqueue_raw_bytes(serial, input, trig)
                  IN  /\ q.serial.baud_divisor_low = serial.baud_divisor_low
                      /\ q.serial.baud_divisor_high = serial.baud_divisor_high
           /\ read(serial, DATA_OFFSET).ret
                  = IF serial.in_buffer = <<>> THEN 0 ELSE Head(serial.in_buffer)
           /\ read(serial, IER_OFFSET).ret = serial.interrupt_enable
           /\ \A lo \in {0, DEFAULT_BAUD_DIVISOR_LOW, 255} :
                  LET other == [serial EXCEPT !.baud_divisor_low = lo,
                                              !.baud_divisor_high = 255 - lo]
                  IN  /\ read(other, DATA_OFFSET).ret = read(serial, DATA_OFFSET).ret
                      /\ read(other, IER_OFFSET).ret = read(serial, IER_OFFSET).ret
                      /\ SameButDivisors(read(other, DATA_OFFSET).serial,
                                         read(serial, DATA_OFFSET).serial)

\* DLAB is clear again after both divisor bytes were programmed, and a byte
\* other than them is queued.
C12_Witness ==
    /\ ~is_dlab_set(serial)
    /\ serial.baud_divisor_low = 52
    /\ serial.baud_divisor_high = 18
    /\ serial.in_buffer # <<>>
    /\ serial.interrupt_enable # 0

\* C13: a read at offset 2 returns interrupt_identification with bits 6
\* and 7 set and the other bits as stored, leaves the stored value at the
\* "none" sentinel and the rest of the state alone, and a second read at
\* offset 2 right after it returns 0xC1.
C13_IirRead ==
    LET first == read(serial, IIR_OFFSET)
        second == read(first.serial, IIR_OFFSET)
    IN  /\ first.ret \div 64 = 3
        /\ first.ret % 64 = serial.interrupt_identification % 64
        /\ first.serial = [serial EXCEPT !.interrupt_identification = IIR_NONE_BIT]
        /\ second.ret = 193
        /\ second.serial = first.serial

\* Both causes are outstanding at once.
C13_Witness ==
    /\ RdaOutstanding(serial)
    /\ ThrOutstanding(serial)

\* The byte whose CTS, DSR, RI and DCD bits are the RTS, DTR, OUT1 and OUT2
\* bits of mcr and whose low four bits are 0.
MirroredOutputs(mcr) ==
    MSR_CTS_BIT * Bit(mcr, 1) + MSR_DSR_BIT * Bit(mcr, 0)
    + MSR_RI_BIT * Bit(mcr, 2) + MSR_DCD_BIT * Bit(mcr, 3)

\* C14: for every byte written to Modem Control, a read at offset 6 that
\* follows returns MirroredOutputs of it when its loopback bit is set and
\* the stored modem_status otherwise; so does a read at offset 6 in every
\* reachable state.
C14_LoopbackMsr ==
    /\ read(serial, MSR_OFFSET).ret
           = IF is_in_loop_mode(serial)
             THEN MirroredOutputs(serial.modem_control) ELSE serial.modem_status
    /\ \A mcr \in McrProbes :
           LET s == write(serial, MCR_OFFSET, mcr, "ok", "ok").serial
           IN  read(s, MSR_OFFSET).ret
                   = IF Bit(mcr, 4) = 1 THEN MirroredOutputs(mcr) ELSE s.modem_status
    /\ read(write(serial, MCR_OFFSET, MCR_LOOP_BIT + MCR_OUT2_BIT, "ok", "ok").serial,
            MSR_OFFSET).ret = MSR_DCD_BIT

\* Loopback with DTR and RTS set: the Modem Status read is DSR + CTS.
C14_Witness ==
    /\ serial.modem_control = MCR_LOOP_BIT + MCR_DTR_BIT + MCR_RTS_BIT
    /\ read(serial, MSR_OFFSET).ret = MSR_DSR_BIT + MSR_CTS_BIT

\* C16: in loopback mode enqueue_raw_bytes succeeds and changes nothing,
\* whatever the input and whatever the Interrupt Signal would answer: the
\* Serial value is the same and the signal is not invoked.
C16_EnqueueNoOpInLoopback ==
    is_in_loop_mode(serial)
        => \A input \in RawInputs \cup FifoInputs, trig \in TriggerOutcomes :
               LET q == enqueue_raw_bytes(serial, input, trig)
               IN  /\ q.result = "Ok"
                   /\ q.serial = serial
                   /\ q.triggered = 0

\* Loopback with the received-data interrupt enabled and not outstanding,
\* the queue empty and data-ready clear: an injection that went through
\* would change all of them.
C16_Witness ==
    /\ is_in_loop_mode(serial)
    /\ is_rda_interrupt_enabled(serial)
    /\ ~RdaOutstanding(serial)
    /\ serial.in_buffer = <<>>
    /\ ~DataReady(serial)

\* C17: outside loopback mode enqueue_raw_bytes leaves the Receive Queue
\* as the old queue followed by the whole input, whatever the two lengths.
C17_EnqueueAppendsAll ==
    ~is_in_loop_mode(serial)
        => \A input \in RawInputs \cup FifoInputs, trig \in TriggerOutcomes :
               LET q == enqueue_raw_bytes(serial, input, trig)
               IN  /\ q.serial.in_buffer = serial.in_buffer \o input
                   /\ Len(q.serial.in_buffer) = Len(serial.in_buffer) + Len(input)

\* Outside loopback mode the queue holds more than FIFO_SIZE entries, the
\* last injection having taken it past the cap.
C17_Witness ==
    /\ ~is_in_loop_mode(serial)
    /\ Len(serial.in_buffer) > FIFO_SIZE

\* The bytes of input written one at a time to the data register of s, the
\* Trigger answering trig each time: the final Serial value and the number
\* of Trigger invocations.
RECURSIVE DataWrites(_, _, _)
DataWrites(s, input, trig) ==
    IF input = <<>>
    THEN [serial |-> s, triggered |-> 0]
    ELSE LET w == write(s, DATA_OFFSET, Head(input), "ok", trig)
             rest == DataWrites(w.serial, Tail(input), trig)
         IN  [serial |-> rest.serial, triggered |-> w.triggered + rest.triggered]

\* s switched to loopback mode, nothing else changed.
InLoopMode(s) == [s EXCEPT !.modem_control = BitOr(@, MCR_LOOP_BIT)]

\* C18: outside loopback mode (DLAB clear), for every input that fits in
\* the remaining capacity, enqueue_raw_bytes leaves the Receive Queue,
\* line_status, interrupt_identification and the number of Interrupt Signal
\* invocations as writing the same bytes one at a time to the data register
\* in loopback mode leaves them, from the same registers and queue.
C18_EnqueueAsLoopbackWrites ==
    (~is_in_loop_mode(serial) /\ ~is_dlab_set(serial))
        => \A input \in RawInputs, trig \in TriggerOutcomes :
               Len(serial.in_buffer) + Len(input) <= FIFO_SIZE
                   => LET q == enqueue_raw_bytes(serial, input, trig)
                          l == DataWrites(InLoopMode(serial), input, trig)
                      IN  /\ q.serial.in_buffer = l.serial.in_buffer
                          /\ q.serial.line_status = l.serial.line_status
                          /\ q.serial.interrupt_identification
                                 = l.serial.interrupt_identification
                          /\ q.triggered = l.triggered

\* The Trigger is invoked by a write at offset with value in state s when
\* the sink answers sink: on the loopback path when the byte is queued, on
\* the sink path when the sink took and flushed the byte, each time with
\* the cause enabled and not outstanding.
WriteInvokesTrigger(s, offset, sink) ==
    /\ offset = DATA_OFFSET
    /\ ~is_dlab_set(s)
    /\ IF is_in_loop_mode(s)
       THEN /\ Len(s.in_buffer) < FIFO_SIZE
            /\ is_rda_interrupt_enabled(s)
            /\ ~RdaOutstanding(s)
       ELSE /\ sink = "ok"
            /\ is_thr_interrupt_enabled(s)
            /\ ~ThrOutstanding(s)

\* C19: a write returns the signal-failure error exactly when it invoked
\* the Interrupt Signal and the invocation failed, and the output-failure
\* error exactly when it used the Output Sink and the sink's write or flush
\* failed; enqueue_raw_bytes returns the signal-failure error exactly when
\* it invoked the signal and the invocation failed, and never the
\* output-failure error; every other call returns success.
C19_ErrorKinds ==
    /\ \A offset \in Offsets, sink \in SinkOutcomes, trig \in TriggerOutcomes :
           \A value \in {65} :
               LET w == write(serial, offset, value, sink, trig)
                   invoked == WriteInvokesTrigger(serial, offset, sink)
                   sinkFailed == TakesSinkPath(serial, offset) /\ sink # "ok"
               IN  /\ w.triggered = (IF invoked THEN 1 ELSE 0)
                   /\ w.result = "Trigger" <=> (invoked /\ trig = "err")
                   /\ w.result = "IOError" <=> sinkFailed
                   /\ w.result = "Ok" <=> (~sinkFailed /\ ~(invoked /\ trig = "err"))
    /\ \A input \in RawInputs, trig \in TriggerOutcomes :
           LET q == enqueue_raw_bytes(serial, input, trig)
               invoked == /\ ~is_in_loop_mode(serial)
                          /\ is_rda_interrupt_enabled(serial)
                          /\ ~RdaOutstanding(serial)
           IN  /\ q.triggered = (IF invoked THEN 1 ELSE 0)
               /\ q.result = "Trigger" <=> (invoked /\ trig = "err")
               /\ q.result = "Ok" <=> ~(invoked /\ trig = "err")

\* Both interrupts enabled and neither outstanding, loopback off and DLAB
\* clear: a data write uses the sink and then the signal, an injection the
\* signal.
C19_Witness ==
    /\ ~is_in_loop_mode(serial)
    /\ ~is_dlab_set(serial)
    /\ is_thr_interrupt_enabled(serial)
    /\ is_rda_interrupt_enabled(serial)
    /\ ~ThrOutstanding(serial)
    /\ ~RdaOutstanding(serial)
    /\ serial.in_buffer # <<>>

\* C20: when a loopback data write queues its byte, or an injection its
\* input, and the Interrupt Signal it then invokes fails, the call returns
\* the signal-failure error and the bytes are in the Receive Queue, the
\* data-ready bit is set and the received-data cause bit is set.
C20_NoRollback ==
    (is_rda_interrupt_enabled(serial) /\ ~RdaOutstanding(serial))
        => /\ (is_in_loop_mode(serial) /\ ~is_dlab_set(serial)
                   /\ Len(serial.in_buffer) < FIFO_SIZE)
                  => \A value \in ProbeBytes :
                         LET w == write(serial, DATA_OFFSET, value, "ok", "err")
                         IN  /\ w.result = "Trigger"
                             /\ w.serial.in_buffer = Append(serial.in_buffer, value)
                             /\ DataReady(w.serial)
                             /\ RdaOutstanding(w.serial)
           /\ ~is_in_loop_mode(serial)
                  => \A input \in RawInputs :
                         LET q == enqueue_raw_bytes(serial, input, "err")
                         IN  /\ q.result = "Trigger"
                             /\ q.serial.in_buffer = serial.in_buffer \o input
                             /\ DataReady(q.serial)
                             /\ RdaOutstanding(q.serial)

\* The queue holds a byte and the received-data cause is outstanding with
\* the Interrupt Signal invoked once for it, in loopback mode.
C20_Witness ==
    /\ is_in_loop_mode(serial)
    /\ ~is_dlab_set(serial)
    /\ is_rda_interrupt_enabled(serial)
    /\ RdaOutstanding(serial)
    /\ signalled.rda = 1
    /\ DataReady(serial)
    /\ Len(serial.in_buffer) = 1

\* Non-loopback data writes leave the Receive Queue and line_status alone,
\* and loopback data writes hand nothing to the Output Sink.
DataWriteFrame ==
    ~is_dlab_set(serial)
        => \A value \in ProbeBytes, env \in Outcomes :
               LET w == write(serial, DATA_OFFSET, value, env[1], env[2])
               IN  IF is_in_loop_mode(serial)
                   THEN w.sunk = <<>> /\ ~w.flushed
                   ELSE /\ w.serial.in_buffer = serial.in_buffer
                        /\ w.serial.line_status = serial.line_status

\* C15, as stated: the Output Sink received, in order, the value of every
\* data-register write made with DLAB clear and loopback off, each followed
\* by a flush; loopback data writes deliver nothing and non-loopback data
\* writes leave the Receive Queue and line_status unchanged.
C15_SinkSequence ==
    /\ Len(out) = Len(tx)
    /\ \A i \in 1..Len(out) :
           i <= Len(tx) => (out[i].byte = tx[i].value /\ out[i].flushed)
    /\ DataWriteFrame

\* The sink-path writes whose write_all did not fail.
Taken == SelectSeq(tx, LAMBDA e : e.sink # "write_err")

\* C15, amended: the Output Sink received, in order, the values of the
\* data-register writes made with DLAB clear and loopback off whose sink
\* write did not fail, each followed by a flush that succeeded unless the
\* sink's flush failed; the rest as stated.
C15_SinkSequenceTaken ==
    /\ Len(out) = Len(Taken)
    /\ \A i \in 1..Len(out) :
           /\ out[i].byte = Taken[i].value
           /\ out[i].flushed <=> Taken[i].sink = "ok"
    /\ DataWriteFrame

\* Two different bytes reached the sink and were flushed, a write of
\* another was refused by the sink, and a loopback data write made since is
\* in the Receive Queue.
C15_Witness ==
    /\ Len(out) = 2
    /\ Len(tx) = 3
    /\ out[1].byte # out[2].byte
    /\ out[1].flushed /\ out[2].flushed
    /\ is_in_loop_mode(serial)
    /\ serial.in_buffer # <<>>

\* C21: a read at any offset returns a byte; at an offset greater than 7 it
\* returns 0 and changes no state, and a write there returns success,
\* changes no state and uses neither capability.
C21_TotalOverOffsets ==
    /\ \A offset \in (0..7) \cup HighOffsets : read(serial, offset).ret \in Byte
    /\ \A offset \in HighOffsets :
           /\ read(serial, offset) = Returned(serial, 0)
           /\ \A value \in {0, 65, 255}, env \in Outcomes :
                  write(serial, offset, value, env[1], env[2]) = Plain(serial)

\* DLAB set, loopback on, a byte queued and its cause outstanding, a byte
\* in Scratch: every arm of read and write has something to change.
C21_Witness ==
    /\ is_dlab_set(serial)
    /\ is_in_loop_mode(serial)
    /\ serial.in_buffer # <<>>
    /\ RdaOutstanding(serial)
    /\ serial.scratch = 18

\* C22: on a fresh engine a read of Line Control returns 0x03, of Modem
\* Control 0x08, of Line Status 0x60, of Modem Status 0xB0, of Scratch 0, of
\* Interrupt Enable 0, of Interrupt Identification 0xC1, of the data register
\* 0, and once Line Control is written with the DLAB bit the divisor bytes
\* read 0x0C and 0x00.
C22_Defaults ==
    serial = new
        => /\ read(serial, LCR_OFFSET).ret = 3
           /\ read(serial, MCR_OFFSET).ret = 8
           /\ read(serial, LSR_OFFSET).ret = 96
           /\ read(serial, MSR_OFFSET).ret = 176
           /\ read(serial, SCR_OFFSET).ret = 0
           /\ read(serial, IER_OFFSET).ret = 0
           /\ read(serial, IIR_OFFSET).ret = 193
           /\ read(serial, DATA_OFFSET).ret = 0
           /\ LET dlab == write(serial, LCR_OFFSET, LCR_DLAB_BIT, "ok", "ok").serial
              IN  /\ read(dlab, DLAB_LOW_OFFSET).ret = 12
                  /\ read(dlab, DLAB_HIGH_OFFSET).ret = 0

\* The engine as Serial::new leaves it, nothing signalled yet.
C22_Witness ==
    /\ serial = new
    /\ signalled = [rda |-> 0, thr |-> 0]
    /\ ier_written = 0

\* C23: from a fresh engine, write(MCR, loopback); write(IER, RDA);
\* write(DATA, 0x41) invoke the Interrupt Signal once in all; then read(LSR)
\* has data-ready set, read(DATA) returns 0x41 and the read(LSR) after it
\* has data-ready clear.
C23_Scenario ==
    serial = new
        => LET w1 == write(serial, MCR_OFFSET, MCR_LOOP_BIT, "ok", "ok")
               w2 == write(w1.serial, IER_OFFSET, IER_RDA_BIT, "ok", "ok")
               w3 == write(w2.serial, DATA_OFFSET, 65, "ok", "ok")
               r1 == read(w3.serial, LSR_OFFSET)
               r2 == read(r1.serial, DATA_OFFSET)
               r3 == read(r2.serial, LSR_OFFSET)
           IN  /\ w1.result = "Ok" /\ w2.result = "Ok" /\ w3.result = "Ok"
               /\ w1.triggered + w2.triggered + w3.triggered = 1
               /\ w3.triggered = 1 /\ w3.cause = "rda"
               /\ BitAnd(r1.ret, LSR_DATA_READY_BIT) # 0
               /\ r2.ret = 65
               /\ BitAnd(r3.ret, LSR_DATA_READY_BIT) = 0

\* The state the three writes of the scenario leave, the signal invoked
\* once.
C23_Witness ==
    /\ serial = [new EXCEPT !.modem_control = MCR_LOOP_BIT,
                            !.interrupt_enable = IER_RDA_BIT,
                            !.in_buffer = <<65>>,
                            !.line_status = 97,
                            !.interrupt_identification = IIR_RDA_BIT]
    /\ signalled = [rda |-> 1, thr |-> 0]
    /\ burst = [made |-> 1, accepted |-> 1]

\* C24: bits 5 and 6 of line_status are set, and a read at offset 5
\* returns 0x60 or 0x61.
C24_LsrIdleBits ==
    /\ BitAnd(serial.line_status, LSR_EMPTY_THR_BIT) # 0
    /\ BitAnd(serial.line_status, LSR_IDLE_BIT) # 0
    /\ read(serial, LSR_OFFSET).ret \in {96, 97}
    /\ ~is_dlab_set(serial)
           => read(read(serial, DATA_OFFSET).serial, LSR_OFFSET).ret \in {96, 97}

\* Data-ready was set and the queue read down to its last byte.
C24_Witness ==
    /\ serial.line_status = 97
    /\ Len(serial.in_buffer) = 1
    /\ ~RdaOutstanding(serial)
    /\ is_rda_interrupt_enabled(serial)

\* C25: a write signals the reset event exactly once when it is of
\* CMD_RESET_CPU (0xFE) at COMMAND_OFFSET (4) and not at all for any other
\* (offset, value) pair; a write that does not signal returns Ok; every read
\* returns 0 and signals nothing.  Checked of the last access made and of
\* every offset with the probe values, and of every value at offset 4.
C25_ResetOnly ==
    /\ i8042_last.op = "write"
           => /\ i8042_last.event =
                     (IF i8042_last.offset = 4 /\ i8042_last.value = 254
                      THEN 1 ELSE 0)
              /\ i8042_last.event = 0 => i8042_last.result = "Ok"
    /\ i8042_last.op = "read" => i8042_last.ret = 0 /\ i8042_last.event = 0
    /\ \A evt \in EventOutcomes :
           /\ \A offset \in Byte, value \in I8042Values :
                  LET r == I8042Device_write(offset, value, evt)
                  IN  /\ r.event = (IF offset = 4 /\ value = 254 THEN 1 ELSE 0)
                      /\ r.event = 0 => r.result = "Ok"
           /\ \A value \in Byte :
                  I8042Device_write(4, value, evt).event
                      = (IF value = 254 THEN 1 ELSE 0)
    /\ \A offset \in Byte : I8042Device_read(offset) = 0

\* A reset command was written and the EventFd holds its one signal.
C25_Witness ==
    /\ i8042_last.op = "write"
    /\ i8042_last.offset = 4
    /\ i8042_last.value = 254
    /\ i8042_last.result = "Ok"
    /\ i8042_last.event = 1
    /\ reset_evt = 1

\* The first n reads of the data register of s, in order.
RECURSIVE DataReads(_, _)
DataReads(s, n) ==
    IF n = 0
    THEN <<>>
    ELSE LET r == read(s, DATA_OFFSET)
         IN  <<r.ret>> \o DataReads(r.serial, n - 1)

PlusSeconds(v, secs) ==
    [hi |-> (v.hi + ((v.lo + secs) \div Half)) % Half, lo |-> (v.lo + secs) % Half]

\* a < b on u32.
Less32(a, b) == a.hi < b.hi \/ (a.hi = b.hi /\ a.lo < b.lo)

\* The u32 a read at offset leaves in the buffer, from RTC r at clock t.
ReadAt(r, t, offset) == from_le_bytes(RTC_read(r, t, offset, rtc_data))

\* C27: a read of the data register returns the load register plus the
\* whole seconds since the last load-register write or reset, modulo 2^32;
\* a read right after loading v returns v; and once a second has elapsed
\* after loading 0xFFFFFFFF the read returns a smaller number (0).
C27_DataRegister ==
    /\ ReadAt(rtc, now, RTCDR)
           = PlusSeconds(rtc.lr, (now - loaded_at) \div TicksPerSecond)
    /\ \A v \in RtcValues :
           LET r == RTC_write(rtc, now, RTCLR, to_le_bytes(v))
           IN  /\ ReadAt(r, now, RTCDR) = v
               /\ ReadAt(r, now + TicksPerSecond - 1, RTCDR) = v
               /\ ReadAt(r, now + TicksPerSecond, RTCDR) = PlusSeconds(v, 1)
    /\ LET r == RTC_write(rtc, now, RTCLR, to_le_bytes(Max32))
           v == ReadAt(r, now + TicksPerSecond, RTCDR)
       IN  Less32(v, Max32) /\ v = U32(0)
    /\ (rtc.lr = Max32 /\ now - loaded_at >= TicksPerSecond)
           => Less32(ReadAt(rtc, now, RTCDR), Max32)

\* 0xFFFFFFFF was loaded, a second went by and the data register read 0.
C27_Witness ==
    /\ rtc.lr = Max32
    /\ (now - loaded_at) \div TicksPerSecond = 1
    /\ rtc_offset = RTCDR
    /\ rtc_data = <<0, 0, 0, 0>>

\* C28: a write to RTCIMSC stores bit 0 of the value in imsc and changes
\* nothing else; a read of RTCMIS returns ris AND imsc, that is bit 0 of
\* ris when the mask is 1 and 0 when it is 0, for the raw status held and
\* for every probe value of it; writes to RTCRIS and RTCMIS leave the RTC
\* as it was.
C28_InterruptMask ==
    /\ \A v \in RtcValues :
           RTC_write(rtc, now, RTCIMSC, to_le_bytes(v))
               = [rtc EXCEPT !.imsc = U32(v.lo % 2)]
    /\ rtc.imsc \in {U32(0), U32(1)}
    /\ \A ris \in RtcValues \cup {rtc.ris} :
           ReadAt([rtc EXCEPT !.ris = ris], now, RTCMIS)
               = (IF rtc.imsc = U32(1) THEN U32(ris.lo % 2) ELSE U32(0))
    /\ \A offset \in {RTCRIS, RTCMIS}, v \in RtcValues :
           RTC_write(rtc, now, offset, to_le_bytes(v)) = rtc

\* The raw status is raised, the mask is set and the masked status read 1.
C28_Witness ==
    /\ rtc.ris = U32(1)
    /\ rtc.imsc = U32(1)
    /\ rtc_offset = RTCMIS
    /\ rtc_data = <<1, 0, 0, 0>>

\* C29, as stated: at most one of the two cause bits is set in
\* interrupt_identification.
C29_SingleCause == ~(RdaOutstanding(serial) /\ ThrOutstanding(serial))

\* C29, amended: interrupt_identification is the "none" sentinel alone or
\* one or both cause bits without the sentinel.
C29_SentinelOrCauses ==
    serial.interrupt_identification
        \in {IIR_NONE_BIT, IIR_THR_EMPTY_BIT, IIR_RDA_BIT,
             IIR_THR_EMPTY_BIT + IIR_RDA_BIT}

\* Both causes outstanding: a byte went to the sink with THR-empty enabled
\* and bytes were injected with received-data enabled.
C29_Witness ==
    /\ serial.interrupt_identification = IIR_THR_EMPTY_BIT + IIR_RDA_BIT
    /\ signalled = [rda |-> 1, thr |-> 1]
    /\ ~is_in_loop_mode(serial)

\* C30: after a data-register read with DLAB clear the received-data cause
\* bit is clear, the THR-empty cause bit is as it was, and
\* interrupt_identification is the "none" sentinel exactly when THR-empty
\* was not outstanding.
C30_DataReadAcknowledges ==
    ~is_dlab_set(serial)
        => LET r == read(serial, DATA_OFFSET).serial
           IN  /\ ~RdaOutstanding(r)
               /\ ThrOutstanding(r) <=> ThrOutstanding(serial)
               /\ r.interrupt_identification = IIR_NONE_BIT
                      <=> ~ThrOutstanding(serial)

\* Both causes outstanding with two bytes queued: the read leaves a byte
\* and the THR-empty cause behind.
C30_Witness ==
    /\ ~is_dlab_set(serial)
    /\ RdaOutstanding(serial)
    /\ ThrOutstanding(serial)
    /\ Len(serial.in_buffer) = 2

\* A data-register write or an injection invokes the Interrupt Signal or
\* changes interrupt_identification only with the matching enable bit set:
\* IER_RDA_BIT for bytes entering the Receive Queue, IER_THR_EMPTY_BIT for
\* bytes sent to the Output Sink.
GatedByEnable ==
    /\ ~is_dlab_set(serial)
           => \A env \in Outcomes :
                  LET w == write(serial, DATA_OFFSET, 65, env[1], env[2])
                      enabled == IF is_in_loop_mode(serial)
                                 THEN is_rda_interrupt_enabled(serial)
                                 ELSE is_thr_interrupt_enabled(serial)
                  IN  ~enabled
                          => /\ w.triggered = 0
                             /\ w.serial.interrupt_identification
                                    = serial.interrupt_identification
    /\ \A input \in RawInputs, trig \in TriggerOutcomes :
           LET q == enqueue_raw_bytes(serial, input, trig)
           IN  ~is_rda_interrupt_enabled(serial)
                   => /\ q.triggered = 0
                      /\ q.serial.interrupt_identification
                             = serial.interrupt_identification

C32_FullQueueDrops ==
    (is_in_loop_mode(serial) /\ ~is_dlab_set(serial)
     /\ Len(serial.in_buffer) >= FIFO_SIZE)
        => \A value \in {0, 65, 255}, sink \in SinkOutcomes, trig \in TriggerOutcomes :
               LET w == write(serial, DATA_OFFSET, value, sink, trig)
               IN  /\ w.result = "Ok"
                   /\ w.serial = serial
                   /\ w.triggered = 0
                   /\ w.sunk = <<>>
                   /\ ~w.flushed

\* Loopback writes were made to a queue of more than FIFO_SIZE entries with
\* received-data enabled and not outstanding, and none was accepted.
C32_Witness ==
    /\ is_in_loop_mode(serial)
    /\ Len(serial.in_buffer) > FIFO_SIZE
    /\ is_rda_interrupt_enabled(serial)
    /\ ~RdaOutstanding(serial)
    /\ burst.made = 2
    /\ burst.accepted = 0

\* C33: a write at offset 2, 5 or 6 returns success and changes no register
\* whatever the capabilities would answer; modem_status is 0xB0; and a read
\* at offset 6 outside loopback mode returns 0xB0.
C33_IgnoredWrites ==
    /\ \A offset \in {2, 5, 6}, value \in {0, 79, 255}, env \in Outcomes :
           write(serial, offset, value, env[1], env[2]) = Plain(serial)
    /\ serial.modem_status = 176
    /\ ~is_in_loop_mode(serial) => read(serial, 6).ret = 176

\* Scratch, the divisor and Interrupt Enable were written and DLAB is set,
\* with the data-ready bit set and loopback off.
C33_Witness ==
    /\ serial.scratch = 18
    /\ serial.baud_divisor_low = 52
    /\ serial.interrupt_enable = IER_UART_VALID_BITS
    /\ is_dlab_set(serial)
    /\ ~is_in_loop_mode(serial)
    /\ DataReady(serial)

\* C34: interrupt_identification is 0x01, 0x02, 0x04 or 0x06, and a read at
\* offset 2 returns it with the two FIFO bits added: 0xC1, 0xC2, 0xC4 or
\* 0xC6.
C34_IirValues ==
    /\ serial.interrupt_identification \in {1, 2, 4, 6}
    /\ read(serial, IIR_OFFSET).ret = serial.interrupt_identification + 192
    /\ read(serial, IIR_OFFSET).ret \in {193, 194, 196, 198}
    /\ read(serial, IIR_OFFSET).serial.interrupt_identification \in {1, 2, 4, 6}

\* Both causes outstanding in loopback mode: a read at offset 2 returns
\* 0xC6.
C34_Witness ==
    /\ serial.interrupt_identification = 6
    /\ is_in_loop_mode(serial)
    /\ Len(serial.in_buffer) = 2

\* C35: when the Receive Queue is non-empty the data-ready bit of
\* line_status is set, and every data-register read that leaves bytes
\* queued leaves the bit set.
C35_QueuedImpliesReady ==
    /\ serial.in_buffer # <<>> => DataReady(serial)
    /\ \A offset \in Offsets :
           LET r == read(serial, offset).serial
           IN  r.in_buffer # <<>> => DataReady(r)

\* The second byte of an injection is still queued after the read of the
\* first.
C35_Witness ==
    /\ serial.in_buffer = <<98>>
    /\ DataReady(serial)
    /\ ~RdaOutstanding(serial)

\* C36: the bytes returned by the data-register reads that found the
\* Receive Queue non-empty, followed by the bytes still queued, are the
\* bytes accepted into the queue in acceptance order, each once; and a
\* write to Line Control or Modem Control leaves the queue as it was.
C36_ReadsAreAccepted ==
    /\ sent = got \o serial.in_buffer
    /\ \A i, j \in 1..Len(sent) : sent[i] = sent[j] => i = j
    /\ \A offset \in {LCR_OFFSET, MCR_OFFSET}, value \in {0, MCR_LOOP_BIT, LCR_DLAB_BIT, 255} :
           write(serial, offset, value, "ok", "ok").serial.in_buffer
               = serial.in_buffer

\* Written and injected bytes were both read back and both are still
\* queued, the divisor was written under DLAB, and loopback is on.
C36_Witness ==
    /\ \E i, j \in 1..Len(got) : got[i] < 128 /\ got[j] > 128
    /\ \E i, j \in 1..Len(serial.in_buffer) :
           serial.in_buffer[i] < 128 /\ serial.in_buffer[j] > 128
    /\ serial.baud_divisor_low = 52
    /\ is_in_loop_mode(serial)
    /\ ~is_dlab_set(serial)

\* s with loopback mode switched the other way, nothing else changed.
LoopToggled(s) ==
    IF is_in_loop_mode(s)
    THEN [s EXCEPT !.modem_control = BitAnd(@, BitNot(MCR_LOOP_BIT))]
    ELSE InLoopMode(s)

\* No data-register write and no injection made on s invokes the Interrupt
\* Signal for cause, whatever the capabilities answer.
NotSignalledAgain(s, cause) ==
    /\ ~is_dlab_set(s)
           => \A sink \in SinkOutcomes, trig \in TriggerOutcomes :
                  LET w == write(s, DATA_OFFSET, 66, sink, trig)
                  IN  ~(w.triggered = 1 /\ w.cause = cause)
    /\ \A input \in RawInputs, trig \in TriggerOutcomes :
           LET q == enqueue_raw_bytes(s, input, trig)
           IN  ~(q.triggered = 1 /\ q.cause = cause)

\* The call that reported r failed on the Interrupt Signal: its cause bit is
\* set, no later data write or injection invokes the signal for that cause,
\* in either loopback setting, and a read at offset 2 (for received-data
\* also a data-register read) clears the cause bit.
FailedSignalSticks(r) ==
    r.result = "Trigger"
        => LET bit == IF r.cause = "rda" THEN IIR_RDA_BIT ELSE IIR_THR_EMPTY_BIT
           IN  /\ r.triggered = 1
               /\ BitAnd(r.serial.interrupt_identification, bit) # 0
               /\ NotSignalledAgain(r.serial, r.cause)
               /\ NotSignalledAgain(LoopToggled(r.serial), r.cause)
               /\ BitAnd(read(r.serial, IIR_OFFSET).serial.interrupt_identification,
                         bit) = 0
               /\ (r.cause = "rda" /\ ~is_dlab_set(r.serial))
                      => ~RdaOutstanding(read(r.serial, DATA_OFFSET).serial)

\* C37: when the Interrupt Signal fails during a data-register write or an
\* injection, the cause bit stays set and later writes and injections do not
\* invoke the signal for that cause until a read acknowledges it.
C37_NoRetry ==
    /\ ~is_dlab_set(serial)
           => FailedSignalSticks(write(serial, DATA_OFFSET, 65, "ok", "err"))
    /\ \A input \in RawInputs :
           FailedSignalSticks(enqueue_raw_bytes(serial, input, "err"))

\* Both interrupts enabled, no cause outstanding and nothing queued, outside
\* loopback mode: a data write and an injection each invoke the signal.
C37_Witness ==
    /\ ~is_in_loop_mode(serial)
    /\ ~is_dlab_set(serial)
    /\ is_thr_interrupt_enabled(serial)
    /\ is_rda_interrupt_enabled(serial)
    /\ serial.interrupt_identification = IIR_NONE_BIT
    /\ serial.in_buffer = <<>>
    /\ ~DataReady(serial)

\* C38: a non-loopback data write whose sink fails on write or on flush
\* returns the output-failure error, invokes no Interrupt Signal and leaves
\* every register and the Receive Queue as before the call.
C38_SinkFailureFrame ==
    TakesSinkPath(serial, DATA_OFFSET)
        => \A sink \in {"write_err", "flush_err"}, trig \in TriggerOutcomes :
               \A value \in {0, 65, 255} :
                   LET w == write(serial, DATA_OFFSET, value, sink, trig)
                   IN  /\ w.result = "IOError"
                       /\ w.triggered = 0
                       /\ w.cause = "none"
                       /\ w.serial = serial

\* The last data write failed in the sink with THR-empty enabled: the cause
\* is not outstanding and the signal was not invoked.
C38_Witness ==
    /\ tx # <<>>
    /\ tx[Len(tx)].sink # "ok"
    /\ is_thr_interrupt_enabled(serial)
    /\ ~ThrOutstanding(serial)
    /\ signalled.thr = 0
    /\ ~is_in_loop_mode(serial)
    /\ ~is_dlab_set(serial)

\* The cause bits of interrupt_identification.
CauseBits(s) == BitAnd(s.interrupt_identification, IIR_RDA_BIT + IIR_THR_EMPTY_BIT)

\* A write at any offset but the data register (offset 0, DLAB clear)
\* invokes no Interrupt Signal, leaves interrupt_identification as it was
\* and succeeds, also when it enables the received-data interrupt while
\* bytes are queued.
OtherWritesSilent ==
    \A offset \in (0..7) \cup {8, 255} :
        (offset # DATA_OFFSET \/ is_dlab_set(serial))
            => \A value \in {IER_RDA_BIT, 255}, env \in Outcomes :
                   LET w == write(serial, offset, value, env[1], env[2])
                   IN  /\ w.triggered = 0
                       /\ w.cause = "none"
                       /\ w.result = "Ok"
                       /\ w.serial.interrupt_identification
                              = serial.interrupt_identification

\* C39, as stated: OtherWritesSilent, and no operation but a data-register
\* write or an injection changes the cause bits of
\* interrupt_identification: no read does.
C39_OnlyDataWritesChange ==
    /\ OtherWritesSilent
    /\ \A offset \in (0..7) \cup {8, 255} :
           CauseBits(read(serial, offset).serial) = CauseBits(serial)

\* C39, amended: OtherWritesSilent, and no operation but a data-register
\* write or an injection sets a cause bit of interrupt_identification: a
\* read only clears cause bits.
C39_OnlyDataWritesSignal ==
    /\ OtherWritesSilent
    /\ \A offset \in (0..7) \cup {8, 255} :
           LET r == read(serial, offset).serial
           IN  BitAnd(CauseBits(r), CauseBits(serial)) = CauseBits(r)

\* The received-data interrupt was enabled while a byte was queued: no
\* cause is outstanding and the signal was not invoked.
C39_Witness ==
    /\ ier_written = IER_RDA_BIT
    /\ is_rda_interrupt_enabled(serial)
    /\ serial.in_buffer # <<>>
    /\ DataReady(serial)
    /\ ~RdaOutstanding(serial)
    /\ signalled.rda = 0

\* C40: a read returns a byte and a Serial value and nothing else (it has
\* no access to the capabilities); at every offset but the data register
\* (offset 0, DLAB clear) and offset 2 it leaves every register and the
\* Receive Queue as they were, and a second read there returns the same
\* byte.
C40_ReadFrame ==
    \A offset \in (0..7) \cup HighOffsets :
        LET r == read(serial, offset)
        IN  /\ DOMAIN r = {"serial", "ret"}
            /\ ~(offset = IIR_OFFSET \/ (offset = DATA_OFFSET /\ ~is_dlab_set(serial)))
                   => /\ r.serial = serial
                      /\ read(r.serial, offset).ret = r.ret

\* Two bytes queued with both causes outstanding in loopback mode and DLAB
\* set: the reads at offsets 0 and 1 return the divisor and nothing changes.
C40_Witness ==
    /\ is_dlab_set(serial)
    /\ is_in_loop_mode(serial)
    /\ Len(serial.in_buffer) = 2
    /\ serial.interrupt_identification = IIR_THR_EMPTY_BIT + IIR_RDA_BIT
    /\ DataReady(serial)

====
